---- MODULE Spec2Model ----
(***************************************************************************)
(* Model of the pdf-remediation batch pipeline:                            *)
(*   - utilities/Resources.py  getFilePaths                                *)
(*   - utilities/PDFix.py      GetPageCount, Fix                           *)
(*   - utilities/VeraPDF.py    runJavaValidation, parseValidationReport,   *)
(*                             validatePdf                                 *)
(*   - Fix.py / Validate.py    the two drivers (discover, probe,           *)
(*                             remediate, validate, aggregate)             *)
(*   - Report.py               the report generator                        *)
(*                                                                         *)
(* The PDF engine and the Java validator are external tools: every call    *)
(* into them is a nondeterministic choice over the behaviours the callers  *)
(* distinguish.                                                            *)
(*                                                                         *)
(* Python values are encoded as follows.  A path is a record               *)
(* [root, dir, name] where root is one of the resource roots, dir the      *)
(* sub-directory below <root>/<folder> and name the file name split at its *)
(* dots (<<"x","v2","pdf">> is x.v2.pdf).  A call either returns a value   *)
(* or raises: [raised |-> FALSE, value |-> v] / [raised |-> TRUE, exc].    *)
(***************************************************************************)
EXTENDS Integers, Sequences, FiniteSets, TLC

\* ------------------------------------------------------------------------
\* Bounds of the model
\* ------------------------------------------------------------------------
MaxFiles == 2          \* files in the input folder of a worker-level run
MaxPages == 2          \* page counts the probe may report
MaxSmallBatch == 6     \* small folder sizes of a length-level run
Window == 3            \* folder sizes explored on each side of a limit
MaxReports == 2        \* *.xml files in the folder of a report run
MaxPoolFiles == 5      \* files in the folder of a run with more files than workers
MaxDeepFiles == 17     \* files in the folder of a run with more than one task per chunk
MaxLogLines == 3       \* lines of a run log read back by parse_output_txt

\* ------------------------------------------------------------------------
\* Program constants
\* ------------------------------------------------------------------------
FileLimit == 25000     \* Fix.py: file_paths[:25000]
process_count == 4     \* Fix.py / Validate.py: process_count = 4
max_threads == 4       \* Report.py: load_xml_reports(xml_dir, max_threads=max(1, 4))
TopLimit == 100        \* Report.py: sorted(clause_stats, ...)[:100]
chunk_size == 500      \* spec.md 4.3: default maximum chunk size

\* ------------------------------------------------------------------------
\* Generic helpers
\* ------------------------------------------------------------------------
Min(a, b) == IF a <= b THEN a ELSE b

Range(s) == {s[i] : i \in 1..Len(s)}

\* Sum of the numbers s[lo..hi], by halving (long lists stay shallow).
RECURSIVE SumRange(_, _, _)
SumRange(s, lo, hi) ==
    IF lo > hi THEN 0
    ELSE IF lo = hi THEN s[lo]
    ELSE LET mid == (lo + hi) \div 2
         IN  SumRange(s, lo, mid) + SumRange(s, mid + 1, hi)

\* Concatenation of the sequences s[lo..hi].
RECURSIVE ConcatRange(_, _, _)
ConcatRange(s, lo, hi) ==
    IF lo > hi THEN <<>>
    ELSE IF lo = hi THEN s[lo]
    ELSE LET mid == (lo + hi) \div 2
         IN  ConcatRange(s, lo, mid) \o ConcatRange(s, mid + 1, hi)

\* Least index in lo..hi at which the boolean sequence is TRUE, 0 if none.
RECURSIVE FirstTrue(_, _, _)
FirstTrue(flags, lo, hi) ==
    IF lo > hi THEN 0
    ELSE IF lo = hi THEN (IF flags[lo] THEN lo ELSE 0)
    ELSE LET mid == (lo + hi) \div 2
             left == FirstTrue(flags, lo, mid)
         IN  IF left # 0 THEN left ELSE FirstTrue(flags, mid + 1, hi)

Returned(v) == [raised |-> FALSE, exc |-> "", value |-> v]
Raised(e) == [raised |-> TRUE, exc |-> e, value |-> [py |-> "none"]]
PyNone == [py |-> "none"]

\* ------------------------------------------------------------------------
\* utilities/Resources.py
\* ------------------------------------------------------------------------
INPUT_DIR == "input"
OUTPUT_DIR == "output"
REPORTS_DIR == "reports"

\* (str(file_path), output_file, str(reports_directory_path)) for one file
\* yielded by rglob: the output file mirrors the input's sub-directory under
\* OUTPUT_DIR, the report directory is the same for every file.
FilePathEntry(f) ==
    [input  |-> [root |-> INPUT_DIR,  dir |-> f.dir, name |-> f.name],
     output |-> [root |-> OUTPUT_DIR, dir |-> f.dir, name |-> f.name],
     report |-> [root |-> REPORTS_DIR, dir |-> "", name |-> <<>>]]

\* getFilePaths: one entry per file rglob yields, in rglob's order.
getFilePaths(found) == [i \in 1..Len(found) |-> FilePathEntry(found[i])]

\* ------------------------------------------------------------------------
\* utilities/PDFix.py
\* ------------------------------------------------------------------------
\* Behaviours of the PDF engine during a probe: GetPdfix() may give None,
\* OpenDoc may give None, otherwise the document has some number of pages.
ProbeBehaviours ==
    {[pdfix |-> FALSE, doc |-> FALSE, pages |-> 0],
     [pdfix |-> TRUE,  doc |-> FALSE, pages |-> 0]}
    \cup {[pdfix |-> TRUE, doc |-> TRUE, pages |-> n] : n \in 1..MaxPages}

\* GetPageCount: [inputPdfPath, -1] (a list) when the document cannot be
\* opened, {inputPdfPath: size} (a dict) otherwise; pdfix.OpenDoc on None
\* raises AttributeError.
GetPageCount(inputPdfPath, b) ==
    IF ~b.pdfix THEN Raised("AttributeError")
    ELSE IF ~b.doc
         THEN Returned([py |-> "list", path |-> inputPdfPath, pages |-> -1])
         ELSE Returned([py |-> "dict", path |-> inputPdfPath, pages |-> b.pages])

\* Behaviours of the PDF engine during a remediation: which of the calls
\* GetPdfix, OpenDoc, CreateFileStream, LoadParamsFromStream, Run and Save
\* succeed.  One call fails at a time, or none.
EngineOk ==
    [pdfix |-> TRUE, doc |-> TRUE, stream |-> TRUE, params |-> TRUE,
     run |-> TRUE, save |-> TRUE]

FixBehaviours ==
    {EngineOk} \cup {[EngineOk EXCEPT ![k] = FALSE] :
                        k \in {"pdfix", "doc", "stream", "params", "run", "save"}}

\* Fix: the value returned or the exception raised, the number of messages
\* printed, and the files written.  A None pdfix, doc or cmdStm is printed
\* about and then dereferenced (pdfix.OpenDoc, doc.GetCommand,
\* cmdStm.Destroy); a failed LoadParamsFromStream, Run or Save is only
\* printed about.
Fix(inputPdfPath, outputPdfPath, reportPath, b) ==
    IF ~b.pdfix THEN [ret |-> Raised("AttributeError"), printed |-> 1, wrote |-> {}]
    ELSE IF ~b.doc THEN [ret |-> Raised("AttributeError"), printed |-> 1, wrote |-> {}]
    ELSE IF ~b.stream THEN [ret |-> Raised("AttributeError"), printed |-> 2, wrote |-> {}]
    ELSE [ret |-> Returned(PyNone),
          printed |-> (IF b.params THEN 0 ELSE 1) + (IF b.run THEN 0 ELSE 1)
                      + (IF b.save THEN 0 ELSE 1),
          wrote |-> IF b.save THEN {outputPdfPath} ELSE {}]

\* ------------------------------------------------------------------------
\* utilities/VeraPDF.py
\* ------------------------------------------------------------------------
\* A <rule> element of the validator's XML output.  description is the text
\* of its <description> child, NoDescription when it has no such child.
NoDescription == "<no description element>"

Rule71 == [specification |-> "ISO 14289-1:2014", clause |-> "7.1",
           tags |-> "structure", description |-> "Content shall be tagged"]
Rule72 == [specification |-> "ISO 14289-1:2014", clause |-> "7.2",
           tags |-> "lang", description |-> NoDescription]

\* The text the validator printed: a well-formed XML document with its
\* <rule> elements, or text that is not well-formed XML (nothing at all,
\* or a message such as "Error: Unable to access jarfile").
Xml(rules) == [xml |-> TRUE, rules |-> rules]
NotXml == [xml |-> FALSE, rules |-> <<>>]

XmlOutputs == {Xml(<<>>), Xml(<<Rule71>>), Xml(<<Rule71, Rule72>>)}

\* Behaviours of the validator process: subprocess.run raises
\* FileNotFoundError ("not_found") or another exception ("exception"), or
\* the process ends with a return code (negative when killed by a signal)
\* and the text it printed.
ToolBehaviours ==
    {[launch |-> l, returncode |-> 0, stdout |-> NotXml] : l \in {"not_found", "exception"}}
    \cup {[launch |-> "ran", returncode |-> c, stdout |-> NotXml] : c \in {-9, 2}}
    \cup {[launch |-> "ran", returncode |-> 0, stdout |-> x] : x \in {Xml(<<>>), NotXml}}
    \cup {[launch |-> "ran", returncode |-> 1, stdout |-> x] : x \in XmlOutputs \cup {NotXml}}

\* filename = Path(pdfPath).stem.split('.')[0] + "." + format, below reportPath
ReportFile(pdfPath, reportPath, format) ==
    [root |-> reportPath.root, dir |-> reportPath.dir,
     name |-> <<Head(pdfPath.name), format>>]

\* runJavaValidation: (returncode, stdout, stderr) and the report written
\* when returncode <= 1; the bare int -1 when subprocess.run raised.
runJavaValidation(pdfPath, reportPath, format, t) ==
    IF t.launch # "ran"
    THEN [ret |-> Returned([py |-> "int", returncode |-> -1, stdout |-> NotXml]),
          wrote |-> {}]
    ELSE [ret |-> Returned([py |-> "tuple", returncode |-> t.returncode,
                            stdout |-> t.stdout]),
          wrote |-> IF t.returncode <= 1
                    THEN {ReportFile(pdfPath, reportPath, format)} ELSE {}]

\* parseValidationReport: ET.fromstring raises ParseError on text that is
\* not well-formed XML; otherwise one dict per <rule> element, in document
\* order.
parseValidationReport(xmlReport) ==
    IF xmlReport.xml THEN Returned(xmlReport.rules) ELSE Raised("ParseError")

\* pdfPath.split('/')[-1]
BaseName(pdfPath) == [kind |-> "basename", dir |-> "", name |-> pdfPath.name]
\* pdfPath.replace(str(INPUT_DIR), "").replace(str(OUTPUT_DIR), "")
RelativeName(pdfPath) ==
    IF pdfPath.root \in {INPUT_DIR, OUTPUT_DIR}
    THEN [kind |-> "relative", dir |-> pdfPath.dir, name |-> pdfPath.name]
    ELSE [kind |-> pdfPath.root, dir |-> pdfPath.dir, name |-> pdfPath.name]

ValidationRow(filename, verdict, rules) ==
    [py |-> "list", filename |-> filename, result |-> verdict, rules |-> rules]

\* validatePdf: [filename, result, rules]; unpacking the bare int that
\* runJavaValidation returns after a launch failure raises TypeError, and
\* for exit code 1 parseValidationReport raises ParseError on output that
\* is not well-formed XML.
validatePdf(pdfPath, outputPdfPath, reportPath, t) ==
    LET run == runJavaValidation(pdfPath, reportPath, "xml", t)
        exitCode == run.ret.value.returncode
        output == run.ret.value.stdout
    IN  IF run.ret.value.py # "tuple"
        THEN [ret |-> Raised("TypeError"), wrote |-> run.wrote]
        ELSE IF exitCode > 1
        THEN [ret |-> Returned(ValidationRow(BaseName(pdfPath), "Error", <<>>)),
              wrote |-> run.wrote]
        ELSE IF exitCode = 0
        THEN [ret |-> Returned(ValidationRow(RelativeName(pdfPath), "True", <<>>)),
              wrote |-> run.wrote]
        ELSE IF exitCode = 1
        THEN LET rules == parseValidationReport(output)
             IN  [ret |-> IF rules.raised THEN Raised(rules.exc)
                          ELSE Returned(ValidationRow(RelativeName(pdfPath), "False",
                                                      rules.value)),
                  wrote |-> run.wrote]
        ELSE [ret |-> Returned(ValidationRow(RelativeName(pdfPath), "Error", <<>>)),
              wrote |-> run.wrote]

\* ------------------------------------------------------------------------
\* multiprocessing.Pool.map / starmap
\* ------------------------------------------------------------------------
\* The list the pool hands back: the i-th element is the value returned for
\* the i-th argument, whatever order the workers finished in.
PoolResultsByCompletion(returns, order) ==
    [k \in 1..Len(order) |-> returns[order[k]].value]

PoolResults(returns, order) == [i \in 1..Len(returns) |-> returns[i].value]

\* The exception the pool re-raises in the driver: the first one a worker
\* reported (order: the tasks in the order their results reached the
\* driver).
FirstRaised(returns, order) ==
    LET flags == [k \in 1..Len(order) |-> returns[order[k]].raised]
        first == FirstTrue(flags, 1, Len(order))
    IN  IF first = 0 THEN "" ELSE returns[order[first]].exc

\* ------------------------------------------------------------------------
\* Fix.py / Validate.py: the driver's own computations
\* ------------------------------------------------------------------------
\* len(file_paths[:25000])
CutLen(n) == Min(n, FileLimit)

\* file_paths = file_paths[:25000] (Fix.py only)
CutList(paths) == SubSeq(paths, 1, CutLen(Len(paths)))

DiscoveredPaths(drv, found) ==
    IF drv = "Fix" THEN CutList(getFilePaths(found)) ELSE getFilePaths(found)

\* for input, output, report in file_paths: input_files.append(input)
InputFiles(paths) == [i \in 1..Len(paths) |-> paths[i].input]

\* for input, output, report in file_paths:
\*     output_file_paths.append((output, output, report))
OutputFilePaths(paths) ==
    [i \in 1..Len(paths) |->
        [input |-> paths[i].output, output |-> paths[i].output,
         report |-> paths[i].report]]

\* total_pages += r[1] over the probe results: r[1] of a list is its second
\* item, r[1] of the dict {inputPdfPath: size} raises KeyError; total_pages
\* then holds the sum of the results before that one.
SumPages(rs) ==
    LET bad == FirstTrue([i \in 1..Len(rs) |-> rs[i].py # "list"], 1, Len(rs))
        added == IF bad = 0 THEN Len(rs) ELSE bad - 1
    IN  [raised |-> bad # 0,
         total |-> SumRange([i \in 1..Len(rs) |-> rs[i].pages], 1, added)]

\* failed_rules rows of one validation row; rule["description"] raises
\* KeyError for a rule parsed without a description.
RuleRaises(rules) == \E k \in 1..Len(rules) : rules[k].description = NoDescription

FailedRuleRows(filename, rules) ==
    [k \in 1..Len(rules) |->
        [filename |-> filename,
         specification |-> rules[k].specification,
         clause |-> rules[k].clause,
         tags |-> rules[k].tags,
         description |-> rules[k].description]]

\* The loop with `else: failed += 1` in place of `elif result == False`.
AggregateRowsErrorAsFailed(rows) ==
    LET n == Len(rows)
        bad == FirstTrue([i \in 1..n |-> RuleRaises(rows[i].rules)], 1, n)
        counted == IF bad = 0 THEN n ELSE bad
        whole == IF bad = 0 THEN n ELSE bad - 1
        partial ==
            IF bad = 0 THEN <<>>
            ELSE LET rules == rows[bad].rules
                     stop == FirstTrue([k \in 1..Len(rules) |->
                                 rules[k].description = NoDescription], 1, Len(rules))
                 IN  FailedRuleRows(rows[bad].filename, SubSeq(rules, 1, stop - 1))
    IN  [passed |-> Cardinality({i \in 1..counted : rows[i].result = "True"}),
         failed |-> Cardinality({i \in 1..counted : rows[i].result # "True"}),
         error  |-> Cardinality({i \in 1..counted : rows[i].result = "Error"}),
         failed_rules |->
             ConcatRange([i \in 1..whole |->
                             FailedRuleRows(rows[i].filename, rows[i].rules)],
                         1, whole) \o partial,
         csv |-> [i \in 1..whole |-> [filename |-> rows[i].filename,
                                      result |-> rows[i].result]],
         raised |-> bad # 0]

\* The aggregation loop over the validation rows, as far as it gets: each
\* row is counted by its result, then its rules are appended to
\* failed_rules, then its rules column is deleted (the CSV row).  The loop
\* ends at the first row whose rules raise; that row is already counted.
AggregateRows(rows) ==
    LET n == Len(rows)
        bad == FirstTrue([i \in 1..n |-> RuleRaises(rows[i].rules)], 1, n)
        counted == IF bad = 0 THEN n ELSE bad
        whole == IF bad = 0 THEN n ELSE bad - 1
        partial ==
            IF bad = 0 THEN <<>>
            ELSE LET rules == rows[bad].rules
                     stop == FirstTrue([k \in 1..Len(rules) |->
                                 rules[k].description = NoDescription], 1, Len(rules))
                 IN  FailedRuleRows(rows[bad].filename, SubSeq(rules, 1, stop - 1))
    IN  [passed |-> Cardinality({i \in 1..counted : rows[i].result = "True"}),
         failed |-> Cardinality({i \in 1..counted : rows[i].result = "False"}),
         error  |-> Cardinality({i \in 1..counted : rows[i].result = "Error"}),
         failed_rules |->
             ConcatRange([i \in 1..whole |->
                             FailedRuleRows(rows[i].filename, rows[i].rules)],
                         1, whole) \o partial,
         csv |-> [i \in 1..whole |-> [filename |-> rows[i].filename,
                                      result |-> rows[i].result]],
         raised |-> bad # 0]

NoTally ==
    [passed |-> 0, failed |-> 0, error |-> 0, failed_rules |-> <<>>,
     csv |-> <<>>, raised |-> FALSE]

\* ========================================================================
\* Report.py
\* ========================================================================
\* Python compares strings by code point.  The code points of the strings
\* the model sorts.
Chars(s) ==
    CASE s = "" -> <<>>
      [] s = "7.1" -> <<55, 46, 49>>
      [] s = "7.2" -> <<55, 46, 50>>
      [] s = "10.1" -> <<49, 48, 46, 49>>
      [] s = "unknown" -> <<117, 110, 107, 110, 111, 119, 110>>
      [] s = "a.pdf" -> <<97, 46, 112, 100, 102>>
      [] s = "b.pdf" -> <<98, 46, 112, 100, 102>>
      [] s = "c.pdf" -> <<99, 46, 112, 100, 102>>
      [] s = "Compliant Files 2024.pdf" ->
           <<67, 111, 109, 112, 108, 105, 97, 110, 116, 32, 70, 105, 108, 101, 115, 32, 50, 48, 50, 52, 46, 112, 100, 102>>
      [] s = "/in/y/b.pdf" -> <<47, 105, 110, 47, 121, 47, 98, 46, 112, 100, 102>>
      [] s = "/in/z/a.pdf" -> <<47, 105, 110, 47, 122, 47, 97, 46, 112, 100, 102>>
      [] s = "r1.xml" -> <<114, 49, 46, 120, 109, 108>>
      [] s = "r2.xml" -> <<114, 50, 46, 120, 109, 108>>
      [] s = "r3.xml" -> <<114, 51, 46, 120, 109, 108>>
      [] s = "r4.xml" -> <<114, 52, 46, 120, 109, 108>>
      [] s = "/xml/r1.xml" -> <<47, 120, 109, 108, 47, 114, 49, 46, 120, 109, 108>>
      [] s = "/xml/r2.xml" -> <<47, 120, 109, 108, 47, 114, 50, 46, 120, 109, 108>>
      [] s = "/xml/r3.xml" -> <<47, 120, 109, 108, 47, 114, 51, 46, 120, 109, 108>>
      [] s = "/xml/r4.xml" -> <<47, 120, 109, 108, 47, 114, 52, 46, 120, 109, 108>>
      [] s = "R1.XML" -> <<82, 49, 46, 88, 77, 76>>
      [] s = "R2.XML" -> <<82, 50, 46, 88, 77, 76>>
      [] s = "R3.XML" -> <<82, 51, 46, 88, 77, 76>>
      [] s = "R4.XML" -> <<82, 52, 46, 88, 77, 76>>
      [] s = "/xml/R1.XML" -> <<47, 120, 109, 108, 47, 82, 49, 46, 88, 77, 76>>
      [] s = "/xml/R2.XML" -> <<47, 120, 109, 108, 47, 82, 50, 46, 88, 77, 76>>
      [] s = "/xml/R3.XML" -> <<47, 120, 109, 108, 47, 82, 51, 46, 88, 77, 76>>
      [] s = "/xml/R4.XML" -> <<47, 120, 109, 108, 47, 82, 52, 46, 88, 77, 76>>

RECURSIVE SeqLess(_, _)
SeqLess(a, b) ==
    IF b = <<>> THEN FALSE
    ELSE IF a = <<>> THEN TRUE
    ELSE IF Head(a) # Head(b) THEN Head(a) < Head(b)
    ELSE SeqLess(Tail(a), Tail(b))

\* a < b for Python strings
StrLess(a, b) == SeqLess(Chars(a), Chars(b))

\* sorted(S) for a set of strings
RECURSIVE SortedStrings(_)
SortedStrings(S) ==
    IF S = {} THEN <<>>
    ELSE LET least == CHOOSE x \in S : \A y \in S \ {x} : StrLess(x, y)
         IN  <<least>> \o SortedStrings(S \ {least})

\* str.strip() and str.lower() on the texts of the model
Strip(s) == IF s = "  " THEN "" ELSE s
Lower(s) == IF s = "FAILED" THEN "failed" ELSE s

\* ---- veraPDF XML documents ----
\* A <rule> or <check> element: its attributes ("" when absent), whether it
\* has a <description> child, and that child's text ("" when it has none).
Element(status, clause, hasDesc, text) ==
    [status |-> status, clause |-> clause, clauseId |-> "", test |-> "",
     hasDesc |-> hasDesc, text |-> text]

\* A document: whether it parses, the text of jobs/job/item/name ("" when
\* the element is missing or empty), its <rule> and its <check> elements.
Document(name, rules, checks) ==
    [wellformed |-> TRUE, name |-> name, rules |-> rules, checks |-> checks]

DocRepeated ==
    Document("a.pdf",
             <<Element("failed", "7.1", TRUE, ""),
               Element("FAILED", "7.1", TRUE, "Tagged")>>, <<>>)
DocMixed ==
    Document("b.pdf",
             <<Element("failed", "7.1", TRUE, "Tagged"),
               Element("passed", "7.2", TRUE, "Lang"),
               Element("", "10.1", FALSE, "")>>, <<>>)
DocClean == Document("a.pdf", <<Element("passed", "7.1", TRUE, "Tagged")>>, <<>>)
DocChecks ==
    Document("", <<>>,
             <<Element("failed", "7.2", TRUE, "  "),
               [Element("failed", "", TRUE, "Lang") EXCEPT !.test = "7.2"]>>)
DocOtherTest ==
    Document("c.pdf", <<Element("failed", "7.1", TRUE, "Untagged")>>, <<>>)
\* Two documents whose item names carry their directories.
DocNestedY ==
    Document("/in/y/b.pdf", <<Element("failed", "7.1", TRUE, "Tagged")>>, <<>>)
DocNestedZ ==
    Document("/in/z/a.pdf", <<Element("failed", "7.2", TRUE, "Lang")>>, <<>>)
\* A document for a PDF whose name begins with the text of a header line of
\* the compliance report.
DocHeaderName ==
    Document("Compliant Files 2024.pdf",
             <<Element("failed", "7.2", TRUE, "Lang")>>, <<>>)
DocBroken == [wellformed |-> FALSE, name |-> "", rules |-> <<>>, checks |-> <<>>]

Documents ==
    {DocRepeated, DocMixed, DocClean, DocChecks, DocOtherTest, DocNestedY,
     DocNestedZ, DocHeaderName, DocBroken}

\* The *.xml files of a report directory, sorted by name.
XmlFileNames == <<"/xml/r1.xml", "/xml/r2.xml", "/xml/r3.xml", "/xml/r4.xml">>

\* The files of a report directory whose names end in .XML, sorted by name:
\* load_xml_reports takes them (f.lower().endswith(".xml")), glob("*.xml")
\* does not yield them.
UpperXmlFileNames == <<"/xml/R1.XML", "/xml/R2.XML", "/xml/R3.XML", "/xml/R4.XML">>

\* ---- collect_verapdf_issues_from_report ----
Skipped(el) == Lower(el.status) # "" /\ Lower(el.status) # "failed"

\* rule.get("clause") or rule.get("clauseId") or rule.get("test") or "unknown"
RuleClause(el) ==
    IF el.clause # "" THEN el.clause
    ELSE IF el.clauseId # "" THEN el.clauseId
    ELSE IF el.test # "" THEN el.test
    ELSE "unknown"

\* check.get("clause") or "unknown"
CheckClause(el) == IF el.clause # "" THEN el.clause ELSE "unknown"

\* (desc_el.text or "").strip() if desc_el is not None else ""
Description(el) == IF el.hasDesc THEN Strip(el.text) ELSE ""

\* What the loops read of each <rule> and of each <check> element.
RuleEntries(doc) ==
    [k \in 1..Len(doc.rules) |->
        [skipped |-> Skipped(doc.rules[k]), clause |-> RuleClause(doc.rules[k]),
         description |-> Description(doc.rules[k])]]

CheckEntries(doc) ==
    [k \in 1..Len(doc.checks) |->
        [skipped |-> Skipped(doc.checks[k]), clause |-> CheckClause(doc.checks[k]),
         description |-> Description(doc.checks[k])]]

\* The loop over the elements: the first unskipped element of a clause gives
\* the issue of that clause, later ones of the clause are ignored.
RECURSIVE Issues(_, _)
Issues(entries, issues) ==
    IF entries = <<>> THEN issues
    ELSE LET el == Head(entries)
             seen_clauses == {issues[k].clause : k \in 1..Len(issues)}
         IN  IF el.skipped \/ el.clause \in seen_clauses
             THEN Issues(Tail(entries), issues)
             ELSE Issues(Tail(entries),
                         Append(issues, [clause |-> el.clause,
                                         description |-> el.description]))

\* issues.sort(key=lambda x: x["clause"]): a stable insertion sort
RECURSIVE SortIssues(_)
SortIssues(issues) ==
    IF issues = <<>> THEN <<>>
    ELSE LET rest == SortIssues(SubSeq(issues, 1, Len(issues) - 1))
             x == issues[Len(issues)]
             before == {k \in 1..Len(rest) : ~StrLess(x.clause, rest[k].clause)}
             n == Cardinality(before)
         IN  SubSeq(rest, 1, n) \o <<x>> \o SubSeq(rest, n + 1, Len(rest))

\* The key and the issue list collect_verapdf_issues_from_report stores for
\* a document, or the parse error it raises.
Collect(report_path, doc) ==
    IF ~doc.wellformed THEN Raised("ParseError")
    ELSE LET pdf_path == IF doc.name # "" THEN Strip(doc.name) ELSE report_path
             fromRules == Issues(RuleEntries(doc), <<>>)
             issues == IF fromRules # <<>> THEN fromRules
                       ELSE Issues(CheckEntries(doc), <<>>)
         IN  Returned([py |-> "entry", pdf_path |-> pdf_path,
                       issues |-> SortIssues(issues)])

\* summary[pdf_path] = issues on a dict that keeps insertion order
DictSet(d, key, value) ==
    IF \E k \in 1..Len(d) : d[k].key = key
    THEN [k \in 1..Len(d) |-> IF d[k].key = key THEN [key |-> key, value |-> value]
                              ELSE d[k]]
    ELSE Append(d, [key |-> key, value |-> value])

\* ---- write_clause_summary_csv ----
\* One file's issues folded into clause_stats.
RECURSIVE StatsOfFile(_, _, _)
StatsOfFile(issues, seen_in_this_file, clause_stats) ==
    IF issues = <<>> THEN clause_stats
    ELSE LET clause == Head(issues).clause
             desc == Strip(Head(issues).description)
         IN  IF clause = "" \/ clause \in seen_in_this_file
             THEN StatsOfFile(Tail(issues), seen_in_this_file, clause_stats)
             ELSE StatsOfFile(Tail(issues), seen_in_this_file \cup {clause},
                    IF clause \notin DOMAIN clause_stats
                    THEN [c \in DOMAIN clause_stats \cup {clause} |->
                            IF c = clause THEN [description |-> desc, count |-> 1]
                            ELSE clause_stats[c]]
                    ELSE [clause_stats EXCEPT
                            ![clause] = [count |-> @.count + 1,
                                         description |->
                                             IF @.description = "" /\ desc # ""
                                             THEN desc ELSE @.description]])

RECURSIVE ClauseStats(_, _)
ClauseStats(summary, clause_stats) ==
    IF summary = <<>> THEN clause_stats
    ELSE ClauseStats(Tail(summary), StatsOfFile(Head(summary).value, {}, clause_stats))

\* The rows below the header Clause,Count,Description, taken in dict order.
ClauseSummaryRowsUnsorted(summary) ==
    LET clause_stats == ClauseStats(summary, <<>>)
        RECURSIVE firstSeen(_, _)
        firstSeen(entries, acc) ==
            IF entries = <<>> THEN acc
            ELSE LET cs == Head(entries).value
                     new == SelectSeq([k \in 1..Len(cs) |-> cs[k].clause],
                                      LAMBDA c : c \notin Range(acc))
                 IN  firstSeen(Tail(entries), acc \o new)
        order == firstSeen(summary, <<>>)
    IN  [k \in 1..Len(order) |->
            [clause |-> order[k], count |-> clause_stats[order[k]].count,
             description |-> clause_stats[order[k]].description]]

\* The rows below the header Clause,Count,Description.
ClauseSummaryRows(summary) ==
    LET clause_stats == ClauseStats(summary, <<>>)
        sorted_clauses == SortedStrings(DOMAIN clause_stats)
    IN  [k \in 1..Len(sorted_clauses) |->
            [clause |-> sorted_clauses[k],
             count |-> clause_stats[sorted_clauses[k]].count,
             description |-> clause_stats[sorted_clauses[k]].description]]

\* ---- write_file_summary_csv ----
\* os.path.basename on the summary keys of the model
os_path_basename(path) ==
    CASE path = "/xml/r1.xml" -> "r1.xml"
      [] path = "/xml/r2.xml" -> "r2.xml"
      [] path = "/xml/r3.xml" -> "r3.xml"
      [] path = "/xml/r4.xml" -> "r4.xml"
      [] path = "/xml/R1.XML" -> "R1.XML"
      [] path = "/xml/R2.XML" -> "R2.XML"
      [] path = "/xml/R3.XML" -> "R3.XML"
      [] path = "/xml/R4.XML" -> "R4.XML"
      [] path = "/in/y/b.pdf" -> "b.pdf"
      [] path = "/in/z/a.pdf" -> "a.pdf"
      [] OTHER -> path

DictKeys(d) == {d[k].key : k \in 1..Len(d)}
DictGet(d, key) == d[CHOOSE k \in 1..Len(d) : d[k].key = key].value

\* write_file_summary_csv iterating summary.keys() without sorted()
FileSummaryCsvInsertionOrder(summary) ==
    LET clauses == SortedStrings(UNION {{is[j].clause : j \in 1..Len(is)} :
                                         is \in {summary[k].value : k \in 1..Len(summary)}})
    IN  [header |-> <<"file">> \o clauses,
         rows |-> [k \in 1..Len(summary) |->
                    LET issues == summary[k].value
                        present_clauses == {issues[j].clause : j \in 1..Len(issues)}
                    IN  <<os_path_basename(summary[k].key)>> \o
                        [c \in 1..Len(clauses) |->
                            IF clauses[c] \in present_clauses THEN "O" ELSE ""]]]

FileSummaryCsv(summary) ==
    LET clauses == SortedStrings(UNION {{is[j].clause : j \in 1..Len(is)} :
                                         is \in {summary[k].value : k \in 1..Len(summary)}})
        paths == SortedStrings(DictKeys(summary))
    IN  [header |-> <<"file">> \o clauses,
         rows |-> [k \in 1..Len(paths) |->
                    LET issues == DictGet(summary, paths[k])
                        present_clauses == {issues[j].clause : j \in 1..Len(issues)}
                    IN  <<os_path_basename(paths[k])>> \o
                        [c \in 1..Len(clauses) |->
                            IF clauses[c] \in present_clauses THEN "O" ELSE ""]]]

\* ---- write_compliance_report ----
\* sorted(list) for a list of distinct strings
SortedList(list) == SortedStrings(Range(list))

\* write_compliance_report without the two sorted() calls
ComplianceReportUnsorted(summary) ==
    LET keys == [k \in 1..Len(summary) |-> summary[k].key]
        compliant_files == SelectSeq(keys, LAMBDA p : Len(DictGet(summary, p)) = 0)
        non_compliant_files == SelectSeq(keys, LAMBDA p : Len(DictGet(summary, p)) # 0)
    IN  [compliant_count |-> Len(compliant_files),
         non_compliant_count |-> Len(non_compliant_files),
         compliant |-> [k \in 1..Len(compliant_files) |->
                           os_path_basename(compliant_files[k])],
         non_compliant |-> [k \in 1..Len(non_compliant_files) |->
                               os_path_basename(non_compliant_files[k])]]

ComplianceReport(summary) ==
    LET keys == [k \in 1..Len(summary) |-> summary[k].key]
        compliant_files == SelectSeq(keys, LAMBDA p : Len(DictGet(summary, p)) = 0)
        non_compliant_files == SelectSeq(keys, LAMBDA p : Len(DictGet(summary, p)) # 0)
        compliant_files_sorted == SortedList(compliant_files)
        non_compliant_files_sorted == SortedList(non_compliant_files)
    IN  [compliant_count |-> Len(compliant_files_sorted),
         non_compliant_count |-> Len(non_compliant_files_sorted),
         compliant |-> [k \in 1..Len(compliant_files_sorted) |->
                           os_path_basename(compliant_files_sorted[k])],
         non_compliant |-> [k \in 1..Len(non_compliant_files_sorted) |->
                               os_path_basename(non_compliant_files_sorted[k])]]

\* ---- write_synthetic_before_output_txt ----
\* The lines after the time stamp; the duration is not modelled.
SyntheticOutputTxt(num_files) ==
    <<[line |-> "Namespace", operation |-> "report-summary"],
      [line |-> "Found", found_files |-> num_files],
      [line |-> "TIME"]>>

\* ---- the text of the artifacts ----
\* A file is a sequence of lines.  A line of a TXT file is the sequence of
\* the pieces of its text (<<"Compliant Files", ":">> is "Compliant Files:");
\* a line of a CSV file is the sequence of its cells.

\* str(n) / f"{n}" for the counts of the model
Str(n) == <<"0", "1", "2", "3", "4", "5", "6", "7", "8", "9">>[n + 1]

\* The pieces of a file name: a piece of its own for a leading header text.
Tokens(name) ==
    IF name = "Compliant Files 2024.pdf" THEN <<"Compliant Files", " 2024.pdf">>
    ELSE <<name>>

\* The text of a line of file-name pieces.
Joined(line) ==
    IF line = <<"Compliant Files", " 2024.pdf">> THEN "Compliant Files 2024.pdf"
    ELSE line[1]

ComplianceLines(summary) ==
    LET r == ComplianceReport(summary)
    IN  <<<<"Compliant File Count:", " ", Str(r.compliant_count)>>,
          <<"Non-Compliant File Count:", " ", Str(r.non_compliant_count)>>,
          <<>>,
          <<"Compliant Files", ":">>>>
        \o [k \in 1..Len(r.compliant) |-> Tokens(r.compliant[k])]
        \o <<<<>>, <<"Non-Compliant Files", ":">>>>
        \o [k \in 1..Len(r.non_compliant) |-> Tokens(r.non_compliant[k])]

ClauseSummaryLines(summary) ==
    LET rows == ClauseSummaryRows(summary)
    IN  <<<<"Clause", "Count", "Description">>>>
        \o [k \in 1..Len(rows) |->
              <<rows[k].clause, Str(rows[k].count), rows[k].description>>]

FileSummaryLines(summary) ==
    LET csv == FileSummaryCsv(summary)
    IN  <<csv.header>> \o csv.rows

\* The time stamp and the duration are fixed texts.
OutputTxtLines(num_files) ==
    <<<<"2026-01-01-000000">>,
      <<"Namespace(", "operation='", "report-summary", "')">>,
      <<"Found ", Str(num_files), " file(s).">>,
      <<"[TIME] processed in ", "0.01", " seconds">>>>

\* ---- reading the artifacts back ----
\* int(text)
int(text) ==
    CASE text = "0" -> Returned(0) [] text = "1" -> Returned(1)
      [] text = "2" -> Returned(2) [] text = "3" -> Returned(3)
      [] text = "4" -> Returned(4) [] text = "5" -> Returned(5)
      [] text = "6" -> Returned(6) [] text = "7" -> Returned(7)
      [] text = "8" -> Returned(8) [] text = "9" -> Returned(9)
      [] text = "-1" -> Returned(-1)
      [] OTHER -> Raised("ValueError")

\* The texts made of decimal digits only (the pattern \d+).
IsDigits(text) == text \in {"0", "1", "2", "3", "4", "5", "6", "7", "8", "9"}

\* The texts the pattern [0-9.]+ matches as a whole.
IsDigitsAndDots(text) == IsDigits(text) \/ text \in {"0.01", "2.5", "1.2.3", "."}

\* float(text), in hundredths, for a text the pattern [0-9.]+ matched
float(text) ==
    CASE text = "0.01" -> Returned(1)
      [] text = "2.5" -> Returned(250)
      [] IsDigits(text) -> Returned(100 * int(text).value)
      [] OTHER -> Raised("ValueError")

Blank(piece) == piece \in {"", " "}

\* line.strip()
RECURSIVE StripLine(_)
StripLine(line) ==
    IF line = <<>> THEN <<>>
    ELSE IF Blank(Head(line)) THEN StripLine(Tail(line))
    ELSE IF Blank(line[Len(line)]) THEN StripLine(SubSeq(line, 1, Len(line) - 1))
    ELSE line

\* int(line.split(":", 1)[1].strip()) for a line that starts with a piece
\* ending in the first colon of the line
CountAfterColon(line) ==
    LET rest == StripLine(Tail(line))
    IN  IF Len(rest) = 1 THEN int(rest[1]) ELSE Raised("ValueError")

\* An optional value: <<>> is None, <<v>> is v.
None == <<>>
Some(v) == <<v>>

\* ---- parse_compliance_txt ----
ComplianceStart ==
    [compliant_count |-> 0, non_compliant_count |-> 0, compliant_files |-> <<>>,
     non_compliant_files |-> <<>>, mode |-> "None"]

\* The body of the loop over the lines.
ComplianceLine(st, raw) ==
    LET line == StripLine(raw)
    IN  IF line = <<>> THEN st
        ELSE IF line[1] = "Compliant File Count:"
        THEN LET n == CountAfterColon(line)
             IN  IF n.raised THEN st ELSE [st EXCEPT !.compliant_count = n.value]
        ELSE IF line[1] = "Non-Compliant File Count:"
        THEN LET n == CountAfterColon(line)
             IN  IF n.raised THEN st ELSE [st EXCEPT !.non_compliant_count = n.value]
        ELSE IF line[1] = "Compliant Files" THEN [st EXCEPT !.mode = "compliant"]
        ELSE IF line[1] = "Non-Compliant Files" THEN [st EXCEPT !.mode = "non_compliant"]
        ELSE IF st.mode = "compliant"
        THEN [st EXCEPT !.compliant_files = Append(@, line)]
        ELSE IF st.mode = "non_compliant"
        THEN [st EXCEPT !.non_compliant_files = Append(@, line)]
        ELSE st

RECURSIVE ComplianceLoop(_, _)
ComplianceLoop(st, lines) ==
    IF lines = <<>> THEN st
    ELSE ComplianceLoop(ComplianceLine(st, Head(lines)), Tail(lines))

parse_compliance_txt(exists, lines) ==
    IF ~exists THEN ComplianceStart ELSE ComplianceLoop(ComplianceStart, lines)

\* ---- parse_output_txt ----
Contains(line, pieces) == \E k \in 1..Len(line) : line[k] \in pieces

\* op_re.search(line): the operation between the quotes, None if no match
OperationOf(line) ==
    LET at == {k \in 1..(Len(line) - 2) :
                  /\ line[k] = "operation='"
                  /\ line[k + 1] \notin {"", "'", "')"}
                  /\ line[k + 2] \in {"'", "')"}}
    IN  IF at = {} THEN None
        ELSE Some(line[(CHOOSE k \in at : \A j \in at : k <= j) + 1])

\* found_re.search(line)
FoundOf(line) ==
    LET at == {k \in 1..(Len(line) - 2) :
                  /\ line[k] = "Found "
                  /\ IsDigits(line[k + 1])
                  /\ line[k + 2] = " file(s)."}
    IN  IF at = {} THEN None
        ELSE Some(line[(CHOOSE k \in at : \A j \in at : k <= j) + 1])

\* time_re.search(line)
TimeOf(line) ==
    LET at == {k \in 1..(Len(line) - 2) :
                  /\ line[k] = "[TIME] processed in "
                  /\ IsDigitsAndDots(line[k + 1])
                  /\ line[k + 2] = " seconds"}
    IN  IF at = {} THEN None
        ELSE Some(line[(CHOOSE k \in at : \A j \in at : k <= j) + 1])

\* The body of the loop without steps.append(current) at a new marker.
OutputLineDropsPrevious(st, line) ==
    IF Contains(line, {"Namespace("}) /\ Contains(line, {"operation='", "operation="})
    THEN LET m == OperationOf(line)
         IN  IF m = None THEN st
             ELSE [steps |-> st.steps,
                   current |-> Some([operation |-> m[1], found_files |-> None,
                                     duration_sec |-> None])]
    ELSE IF Contains(line, {"Found "}) /\ Contains(line, {" file(s)."})
    THEN LET m == FoundOf(line)
         IN  IF m = None \/ st.current = None THEN st
             ELSE [st EXCEPT !.current[1].found_files = Some(int(m[1]).value)]
    ELSE IF Contains(line, {"[TIME] processed in ", "[TIME]"})
    THEN LET m == TimeOf(line)
         IN  IF m = None \/ st.current = None THEN st
             ELSE [st EXCEPT !.current[1].duration_sec =
                       IF float(m[1]).raised THEN None ELSE Some(float(m[1]).value)]
    ELSE st

\* The body of the loop over the lines; current is None or <<step>>.
OutputLine(st, line) ==
    IF Contains(line, {"Namespace("}) /\ Contains(line, {"operation='", "operation="})
    THEN LET m == OperationOf(line)
         IN  IF m = None THEN st
             ELSE [steps |-> st.steps \o st.current,
                   current |-> Some([operation |-> m[1], found_files |-> None,
                                     duration_sec |-> None])]
    ELSE IF Contains(line, {"Found "}) /\ Contains(line, {" file(s)."})
    THEN LET m == FoundOf(line)
         IN  IF m = None \/ st.current = None THEN st
             ELSE [st EXCEPT !.current[1].found_files = Some(int(m[1]).value)]
    ELSE IF Contains(line, {"[TIME] processed in ", "[TIME]"})
    THEN LET m == TimeOf(line)
         IN  IF m = None \/ st.current = None THEN st
             ELSE [st EXCEPT !.current[1].duration_sec =
                       IF float(m[1]).raised THEN None ELSE Some(float(m[1]).value)]
    ELSE st

RECURSIVE OutputLoop(_, _)
OutputLoop(st, lines) ==
    IF lines = <<>> THEN st.steps \o st.current
    ELSE OutputLoop(OutputLine(st, Head(lines)), Tail(lines))

parse_output_txt(exists, lines) ==
    IF ~exists THEN <<>> ELSE OutputLoop([steps |-> <<>>, current |-> None], lines)

\* ---- csv.DictReader ----
\* row.get(key, default): the default when the header has no such column,
\* None when the row is too short to have the cell.
RowGet(header, row, key, default) ==
    LET at == {k \in 1..Len(header) : header[k] = key}
    IN  IF at = {} THEN Some(default)
        ELSE LET k == CHOOSE k \in at : \A j \in at : j <= k
             IN  IF k <= Len(row) THEN Some(row[k]) ELSE None

\* The rows DictReader yields: those after the header that are not empty.
DataRows(lines) ==
    IF lines = <<>> THEN <<>> ELSE SelectSeq(Tail(lines), LAMBDA row : row # <<>>)

\* ---- parse_clause_summary_csv ----
ClauseRow(header, row) ==
    LET cell == RowGet(header, row, "Count", "0")
        count == IF cell = None \/ cell = Some("") THEN 0
                 ELSE IF int(cell[1]).raised THEN 0 ELSE int(cell[1]).value
    IN  [clause |-> RowGet(header, row, "Clause", ""),
         description |-> RowGet(header, row, "Description", ""),
         count |-> count]

parse_clause_summary_csv(exists, lines) ==
    IF ~exists \/ lines = <<>> THEN <<>>
    ELSE LET rows == DataRows(lines)
         IN  [k \in 1..Len(rows) |-> ClauseRow(lines[1], rows[k])]

\* ---- parse_file_summary_csv ----
\* (row.get("file") or "").strip()
FileCell(header, row) ==
    LET cell == RowGet(header, row, "file", "")
    IN  IF cell = None THEN "" ELSE Strip(cell[1])

parse_file_summary_csv(exists, lines) ==
    IF ~exists \/ lines = <<>> THEN 0
    ELSE LET rows == DataRows(lines)
         IN  Cardinality({FileCell(lines[1], rows[k]) : k \in 1..Len(rows)} \ {""})

\* ---- generate_phase_html ----
\* round(a / b) for b > 0; no quotient of the model lies halfway.
RoundDiv(a, b) == (2 * a + b) \div (2 * b)

\* The head of the function without its guards: the division is always made.
CardNumbersUnguarded(compliant_count, non_compliant_count) ==
    LET total_files == compliant_count + non_compliant_count
    IN  IF total_files = 0 THEN Raised("ZeroDivisionError")
        ELSE Returned([total_files_text |-> IF total_files > 0 THEN Str(total_files)
                                            ELSE "N/A",
                       compliant_ratio |-> [num |-> compliant_count, den |-> total_files],
                       non_compliant_ratio |-> [num |-> total_files - compliant_count,
                                                den |-> total_files]])

\* total_files_text and the two ratios, as fractions: the first statements
\* of the function.
CardNumbers(compliant_count, non_compliant_count) ==
    LET total_files == compliant_count + non_compliant_count
    IN  Returned([total_files_text |-> IF total_files > 0 THEN Str(total_files) ELSE "N/A",
                  compliant_ratio |-> IF total_files > 0
                                      THEN [num |-> compliant_count, den |-> total_files]
                                      ELSE [num |-> 0, den |-> 1],
                  non_compliant_ratio |-> IF total_files > 0
                                          THEN [num |-> total_files - compliant_count,
                                                den |-> total_files]
                                          ELSE [num |-> 0, den |-> 1]])

\* f"{ratio*100:.1f}", in tenths of a percent
Percent(ratio) == RoundDiv(1000 * ratio.num, ratio.den)

\* sorted(clause_stats, key=lambda c: c["count"], reverse=True): stable
RECURSIVE SortByCountDescending(_)
SortByCountDescending(clauses) ==
    IF clauses = <<>> THEN <<>>
    ELSE LET rest == SortByCountDescending(SubSeq(clauses, 1, Len(clauses) - 1))
             x == clauses[Len(clauses)]
             n == Cardinality({k \in 1..Len(rest) : rest[k].count >= x.count})
         IN  SubSeq(rest, 1, n) \o <<x>> \o SubSeq(rest, n + 1, Len(rest))

\* What the page shows, or the exception the function raises.  The clause
\* table holds the TopLimit rows of the highest counts; a row beyond them
\* is not looked at.  The number
\* of files of the file summary is shown only below a non-empty clause
\* table, and only when it is not 0.
generate_phase_html(steps, compliant_count, non_compliant_count, clause_stats, file_summary_file_count) ==
    LET numbers == CardNumbers(compliant_count, non_compliant_count)
        sorted == SortByCountDescending(clause_stats)
        top_clauses == SubSeq(sorted, 1, Min(Len(sorted), TopLimit))
    IN  IF numbers.raised THEN Raised(numbers.exc)
        ELSE IF \E k \in 1..Len(top_clauses) :
                    top_clauses[k].clause = None \/ top_clauses[k].description = None
        THEN Raised("AttributeError")
        ELSE Returned(
            [py |-> "html",
             total_files_text |-> numbers.value.total_files_text,
             compliant_count |-> compliant_count,
             non_compliant_count |-> non_compliant_count,
             compliant_ratio |-> numbers.value.compliant_ratio,
             non_compliant_ratio |-> numbers.value.non_compliant_ratio,
             compliant_percent |-> Percent(numbers.value.compliant_ratio),
             non_compliant_percent |-> Percent(numbers.value.non_compliant_ratio),
             steps |-> steps,
             top_clauses |-> top_clauses,
             file_summary_file_count |->
                 IF clause_stats # <<>> /\ file_summary_file_count # 0
                 THEN Some(file_summary_file_count) ELSE None])

\* ---- build_report ----
\* The page built from the four files of the folder.
build_report(dir) ==
    LET has(name) == name \in dir.written
        steps == parse_output_txt(has("output.txt"), dir.text.out_txt)
        compliance == parse_compliance_txt(has("verapdf-compliance-report.txt"),
                                           dir.text.compliance_txt)
        clause_stats == parse_clause_summary_csv(has("verapdf-clause-summary.csv"),
                                                 dir.text.clause_csv)
        file_summary_file_count ==
            parse_file_summary_csv(has("verapdf-file-summary.csv"), dir.text.file_csv)
    IN  generate_phase_html(steps, compliance.compliant_count,
                            compliance.non_compliant_count, clause_stats,
                            file_summary_file_count)

\* ------------------------------------------------------------------------
\* State
\* ------------------------------------------------------------------------
VARIABLES
    folder,        \* the PDF files below the input folder, in rglob's order
    driver,        \* "Fix", "Validate", "Report" (the scripts), "main" (Report.main)
    pc,            \* position of the driver
    file_paths,    \* the (input, output, report) list of the run
    batch,         \* the argument list handed to the current pool
    task,          \* per argument: "pending", "running", ..., "done",
                   \* "skipped" (left out of a chunk that raised)
    behaviour,     \* per argument: what the external tool did for it
    returns,       \* per argument: the value returned or exception raised
    completed,     \* indices of the finished tasks, in the order their
                   \* results reached the driver
    results,       \* the list the pool handed back to the driver
    total_pages,   \* driver: total_pages
    tally,         \* driver: passed, failed, error, failed_rules, CSV rows
    disk,          \* files written by the workers: [file, stage, job]
    artifacts,     \* CSV files written by the driver
    printed,       \* messages printed by the remediation workers, per job
    exc,           \* the exception that ended the driver, "" if none
    found_count,   \* length-level run: number of files rglob yields
    paths_count,   \* length-level run: len(file_paths)
    batch_count,   \* length-level run: length of the list handed to the pool
    xml_dir,       \* report run: the documents of the *.xml files, by file name
    xml_dir_state, \* report run: what else is true of the XML directory
    threads,       \* report run: the number of threads asked for
    summary,       \* report run: the dict the parser threads fill
    out_dir        \* report run: the artifacts written to the summary folder

vars == <<folder, driver, pc, file_paths, batch, task, behaviour, returns,
          completed, results, total_pages, tally, disk, artifacts, printed, exc,
          found_count, paths_count, batch_count, xml_dir, xml_dir_state, threads,
          summary, out_dir>>

listVars ==
    <<folder, file_paths, batch, task, behaviour, returns, completed, results,
      total_pages, tally, disk, artifacts, printed>>

countVars == <<found_count, paths_count, batch_count>>

inputVars == <<xml_dir, xml_dir_state, threads>>

reportVars == <<inputVars, summary, out_dir>>

poolVars == <<batch, task, behaviour, returns, completed>>

\* ------------------------------------------------------------------------
\* Input folders
\* ------------------------------------------------------------------------
\* The PDF files that may lie below the input folder of a worker-level run:
\* two sub-directories holding a file of the same name, and two names of
\* one directory that differ only after their first dot.
InputTree ==
    <<[dir |-> "a", name |-> <<"x", "pdf">>],
      [dir |-> "a", name |-> <<"x", "v2", "pdf">>],
      [dir |-> "b", name |-> <<"x", "pdf">>]>>

\* The orders in which a directory walk can meet the files of S: rglob
\* goes through the folder directory by directory and takes the entries of
\* a directory in the order the file system gives them, so any order in
\* which the files of one directory follow each other.
Walks(S) ==
    {w \in [1..Cardinality(S) -> S] :
        /\ \A j, k \in 1..Cardinality(S) : j # k => w[j] # w[k]
        /\ \A j, k, l \in 1..Cardinality(S) :
               (j < k /\ k < l /\ w[j].dir = w[l].dir) => w[k].dir = w[j].dir}

\* What rglob may yield: the files present in the folder, each once.
Listings ==
    UNION {Walks(S) : S \in {T \in SUBSET Range(InputTree) : Cardinality(T) <= MaxFiles}}

\* ------------------------------------------------------------------------
\* Initial state: a driver is started on a folder
\* ------------------------------------------------------------------------
NoBehaviour == [idle |-> TRUE]

NoArtifacts ==
    [written |-> {}, file_csv |-> <<>>, clause_csv |-> <<>>,
     compliance_txt |-> <<>>, out_txt |-> <<>>,
     text |-> [file_csv |-> <<>>, clause_csv |-> <<>>, compliance_txt |-> <<>>,
               out_txt |-> <<>>],
     html |-> Returned(PyNone)]

Started(drivers, listings, counts, dirs, folders) ==
    /\ folder \in listings
    /\ found_count \in counts
    /\ xml_dir \in dirs
    /\ xml_dir_state = (IF xml_dir = <<>> THEN "missing" ELSE "files")
    /\ threads = max_threads
    /\ summary = <<>>
    /\ out_dir \in folders
    /\ paths_count = 0
    /\ batch_count = 0
    /\ driver \in drivers
    /\ pc = "start"
    /\ file_paths = <<>>
    /\ batch = <<>>
    /\ task = <<>>
    /\ behaviour = <<>>
    /\ returns = <<>>
    /\ completed = <<>>
    /\ results = <<>>
    /\ total_pages = 0
    /\ tally = NoTally
    /\ disk = {}
    /\ artifacts = {}
    /\ printed = <<>>
    /\ exc = ""

Init == Started({"Fix", "Validate"}, Listings, {0}, {<<>>}, {NoArtifacts})

\* ------------------------------------------------------------------------
\* Driver steps
\* ------------------------------------------------------------------------
\* file_paths = getFilePaths("pdf", folder) [; file_paths[:25000]];
\* exit() when nothing was found.
Discover ==
    /\ pc = "start"
    /\ file_paths' = DiscoveredPaths(driver, folder)
    /\ printed' = [i \in 1..Len(file_paths') |-> 0]
    /\ pc' = IF Len(file_paths') = 0 THEN "exited" ELSE "found"
    /\ UNCHANGED <<reportVars, countVars, folder, driver, poolVars, results, total_pages, tally, disk, artifacts, exc>>

\* with multiprocessing.Pool(...) as pool: pool.map / pool.starmap(f, args)
Dispatch(args) ==
    /\ batch' = args
    /\ task' = [i \in 1..Len(args) |-> "pending"]
    /\ behaviour' = [i \in 1..Len(args) |-> NoBehaviour]
    /\ returns' = [i \in 1..Len(args) |-> Returned(PyNone)]
    /\ completed' = <<>>

DispatchProbe ==
    /\ pc = "found"
    /\ Dispatch(InputFiles(file_paths))
    /\ pc' = "probing"
    /\ UNCHANGED <<reportVars, countVars, folder, driver, file_paths, results, total_pages, tally, disk, artifacts, printed, exc>>

DispatchFix ==
    /\ driver = "Fix"
    /\ pc = "probed"
    /\ Dispatch(file_paths)
    /\ pc' = "remediating"
    /\ UNCHANGED <<reportVars, countVars, folder, driver, file_paths, results, total_pages, tally, disk, artifacts, printed, exc>>

DispatchValidate ==
    /\ \/ driver = "Fix" /\ pc = "remediated" /\ Dispatch(OutputFilePaths(file_paths))
       \/ driver = "Validate" /\ pc = "probed" /\ Dispatch(file_paths)
    /\ pc' = "validating"
    /\ UNCHANGED <<reportVars, countVars, folder, driver, file_paths, results, total_pages, tally, disk, artifacts, printed, exc>>

\* A pool call that returns as soon as one task is done.
SomeFinished == completed # <<>>

\* pool.map / pool.starmap return or raise when every chunk has ended: each
\* task is done, or was left out because an earlier task of its chunk
\* raised.
AllFinished == {i \in 1..Len(batch) : task[i] \notin {"done", "skipped"}} = {}
AnyRaised == \E i \in 1..Len(batch) : returns[i].raised

\* The pool call raises in the driver what a worker raised.
PoolRaises ==
    /\ pc' = "crashed"
    /\ exc' = FirstRaised(returns, completed)
    /\ UNCHANGED <<results, total_pages, tally>>

JoinProbe ==
    /\ pc = "probing"
    /\ AllFinished
    /\ IF AnyRaised THEN PoolRaises
       ELSE LET rs == PoolResults(returns, completed)
                sum == SumPages(rs)
            IN  /\ results' = rs
                /\ IF sum.raised
                   THEN pc' = "crashed" /\ exc' = "KeyError" /\ total_pages' = sum.total
                   ELSE pc' = "probed" /\ exc' = exc /\ total_pages' = sum.total
                /\ UNCHANGED tally
    /\ UNCHANGED <<reportVars, countVars, folder, driver, file_paths, poolVars, disk, artifacts, printed>>

JoinFix ==
    /\ pc = "remediating"
    /\ AllFinished
    /\ IF AnyRaised THEN PoolRaises
       ELSE /\ results' = PoolResults(returns, completed)
            /\ pc' = "remediated"
            /\ UNCHANGED <<total_pages, tally, exc>>
    /\ UNCHANGED <<reportVars, countVars, folder, driver, file_paths, poolVars, disk, artifacts, printed>>

JoinValidate ==
    /\ pc = "validating"
    /\ AllFinished
    /\ IF AnyRaised THEN PoolRaises
       ELSE /\ results' = PoolResults(returns, completed)
            /\ pc' = "validated"
            /\ UNCHANGED <<total_pages, tally, exc>>
    /\ UNCHANGED <<reportVars, countVars, folder, driver, file_paths, poolVars, disk, artifacts, printed>>

\* The aggregation loop, then the results CSV and, when there are failed
\* rules, the failed-rules CSV.
Aggregate ==
    /\ pc = "validated"
    /\ tally' = AggregateRows(results)
    /\ IF tally'.raised
       THEN pc' = "crashed" /\ exc' = "KeyError" /\ artifacts' = artifacts
       ELSE /\ pc' = "done"
            /\ exc' = exc
            /\ artifacts' = {"vera_validation_results"}
                 \cup (IF Len(tally'.failed_rules) > 0 THEN {"failed_rules"} ELSE {})
    /\ UNCHANGED <<reportVars, countVars, folder, driver, file_paths, poolVars, results, total_pages, disk, printed>>

\* ------------------------------------------------------------------------
\* Worker steps
\* ------------------------------------------------------------------------
\* The tasks that occupy a process of the pool ("hung": in a validator
\* process that never ends).
Running == {i \in 1..Len(batch) : task[i] \in {"running", "hung"}}

\* pool.map / pool.starmap without a chunksize cut the batch into chunks of
\* ceil(n / (4 * processes)) consecutive tasks; a worker takes a chunk from
\* the queue and runs its tasks one after the other.
chunksize(n) == (n + 4 * process_count - 1) \div (4 * process_count)

\* The first and the last task of the chunk of task i.
ChunkHead(i) == i - ((i - 1) % chunksize(Len(batch)))
ChunkLast(i) == Min(ChunkHead(i) + chunksize(Len(batch)) - 1, Len(batch))

\* The first tasks of the chunks no worker has begun to run.
Queued == {j \in 1..Len(batch) : ChunkHead(j) = j /\ task[j] = "pending"}

\* A pool that starts a chunk whenever one is queued.
StartUnbounded(i) ==
    /\ pc \in {"probing", "remediating", "validating"}
    /\ i \in Queued
    /\ task' = [task EXCEPT ![i] = "running"]
    /\ UNCHANGED <<reportVars, countVars, folder, driver, pc, file_paths, batch, behaviour, returns, completed,
                   results, total_pages, tally, disk, artifacts, printed, exc>>

\* A worker begins the first task of its chunk.  The workers take the
\* chunks from the queue in order, but need not begin them in that order:
\* every earlier chunk not yet begun is in the hands of a worker, too.
Start(i) ==
    /\ pc \in {"probing", "remediating", "validating"}
    /\ i \in Queued
    /\ Cardinality(Running) + Cardinality({j \in Queued : j < i}) < process_count
    /\ task' = [task EXCEPT ![i] = "running"]
    /\ UNCHANGED <<reportVars, countVars, folder, driver, pc, file_paths, batch, behaviour, returns, completed,
                   results, total_pages, tally, disk, artifacts, printed, exc>>

\* The files job i of a stage wrote, as disk entries.
Written(stg, i, wrote) == {[file |-> f, stage |-> stg, job |-> i] : f \in wrote}

\* Task i ends.  Its worker goes on with the next task of the chunk; when
\* the task raised, the rest of the chunk is left out.  The result of a
\* chunk reaches the driver when the chunk has ended.
Finished(i, b, ret) ==
    /\ task' = [j \in 1..Len(task) |->
                   IF j = i THEN "done"
                   ELSE IF j > i /\ j <= ChunkLast(i)
                        THEN (IF ret.raised THEN "skipped"
                              ELSE IF j = i + 1 THEN "running" ELSE task[j])
                        ELSE task[j]]
    /\ behaviour' = [behaviour EXCEPT ![i] = b]
    /\ returns' = [returns EXCEPT ![i] = ret]
    /\ completed' = IF ret.raised \/ i = ChunkLast(i)
                    THEN completed \o [k \in 1..(i - ChunkHead(i) + 1) |->
                                          ChunkHead(i) + k - 1]
                    ELSE completed

FinishProbe(i, b) ==
    /\ pc = "probing"
    /\ task[i] = "running"
    /\ Finished(i, b, GetPageCount(batch[i], b))
    /\ UNCHANGED <<reportVars, countVars, folder, driver, pc, file_paths, batch, results, total_pages, tally,
                   disk, artifacts, printed, exc>>

FinishFix(i, b) ==
    /\ pc = "remediating"
    /\ task[i] = "running"
    /\ LET r == Fix(batch[i].input, batch[i].output, batch[i].report, b)
       IN  /\ Finished(i, b, r.ret)
           /\ printed' = [printed EXCEPT ![i] = r.printed]
           /\ disk' = disk \cup Written("fix", i, r.wrote)
    /\ UNCHANGED <<reportVars, countVars, folder, driver, pc, file_paths, batch, results, total_pages, tally,
                   artifacts, exc>>

FinishValidate(i, b) ==
    /\ pc = "validating"
    /\ task[i] = "running"
    /\ LET r == validatePdf(batch[i].input, batch[i].output, batch[i].report, b)
       IN  /\ Finished(i, b, r.ret)
           /\ disk' = disk \cup Written("validate", i, r.wrote)
    /\ UNCHANGED <<reportVars, countVars, folder, driver, pc, file_paths, batch, results, total_pages, tally,
                   artifacts, printed, exc>>

Jobs == 1..Len(batch)

Next ==
    \/ Discover
    \/ DispatchProbe
    \/ DispatchFix
    \/ DispatchValidate
    \/ \E i \in Jobs : Start(i)
    \/ \E i \in Jobs, b \in ProbeBehaviours : FinishProbe(i, b)
    \/ \E i \in Jobs, b \in FixBehaviours : FinishFix(i, b)
    \/ \E i \in Jobs, b \in ToolBehaviours : FinishValidate(i, b)
    \/ JoinProbe
    \/ JoinFix
    \/ JoinValidate
    \/ Aggregate

Spec == Init /\ [][Next]_vars

\* ------------------------------------------------------------------------
\* Runs over more files than the pool has processes, and over more files
\* than four times that, where a chunk of the pool holds more than one
\* task.  The external tools behave alike for every file: the probe cannot
\* open it, the remediation succeeds, the validator ends with status 0.
\* In the largest folder the engine is not there for the probe of one file.
\* ------------------------------------------------------------------------
\* The folder is a chain of directories, each holding one file and the next
\* directory: rglob meets the files from the top down.
RECURSIVE DeepDir(_)
DeepDir(k) == IF k = 1 THEN "e" ELSE DeepDir(k - 1) \o "/e"

\* What rglob yields for a chain of n directories.
CrowdedListings ==
    {[k \in 1..n |-> [dir |-> DeepDir(k), name |-> <<"x", "pdf">>]] : n \in 1..MaxPoolFiles}

\* A chain long enough for chunks of more than one task; "lone" is the file
\* of its third directory.
DeepListing ==
    [k \in 1..MaxDeepFiles |->
        [dir |-> DeepDir(k), name |-> <<IF k = 3 THEN "lone" ELSE "x", "pdf">>]]

QuietProbe == [pdfix |-> TRUE, doc |-> FALSE, pages |-> 0]
QuietTool == [launch |-> "ran", returncode |-> 0, stdout |-> Xml(<<>>)]

\* What the engine does for the probe of job i: GetPdfix() gives None in
\* the process that probes the file "lone".
PoolProbe(i) ==
    IF pc = "probing" /\ batch[i].name = <<"lone", "pdf">>
    THEN [pdfix |-> FALSE, doc |-> FALSE, pages |-> 0]
    ELSE QuietProbe

InitPool ==
    \/ Started({"Fix", "Validate"}, CrowdedListings, {0}, {<<>>}, {NoArtifacts})
    \/ Started({"Validate"}, {DeepListing}, {0}, {<<>>}, {NoArtifacts})

NextPool ==
    \/ Discover
    \/ DispatchProbe
    \/ DispatchFix
    \/ DispatchValidate
    \/ \E i \in Jobs : Start(i)
    \/ \E i \in Jobs : FinishProbe(i, PoolProbe(i))
    \/ \E i \in Jobs : FinishFix(i, EngineOk)
    \/ \E i \in Jobs : FinishValidate(i, QuietTool)
    \/ JoinProbe
    \/ JoinFix
    \/ JoinValidate
    \/ Aggregate

SpecPool == InitPool /\ [][NextPool]_vars

\* ------------------------------------------------------------------------
\* Runs in which a validator process may never end.  subprocess.run is
\* called without a timeout, so the job that waits for it never returns.
\* ------------------------------------------------------------------------
Hang(i) ==
    /\ pc = "validating"
    /\ task[i] = "running"
    /\ task' = [task EXCEPT ![i] = "hung"]
    /\ UNCHANGED <<reportVars, countVars, folder, driver, pc, file_paths, batch, behaviour,
                   returns, completed, results, total_pages, tally, disk, artifacts,
                   printed, exc>>

NextTimeout ==
    \/ NextPool
    \/ \E i \in Jobs : Hang(i)

\* Every worker and the driver keep running: a step that stays possible is
\* eventually taken.
SpecTimeout == Init /\ [][NextTimeout]_vars /\ WF_vars(NextTimeout)

\* ------------------------------------------------------------------------
\* Length-level runs
\* ------------------------------------------------------------------------
\* A run of a driver on a folder of any size, followed by the lengths of its
\* lists only: len(getFilePaths(..)) is the number of files rglob yields,
\* len(l[:25000]) is CutLen(len(l)), input_files and output_file_paths are
\* as long as file_paths, and a pool call is handed the whole list.  A pool
\* call either returns or re-raises what a worker raised.
FolderSizes ==
    (0..MaxSmallBatch)
    \cup ((chunk_size - Window)..(chunk_size + Window))
    \cup ((FileLimit - Window)..(FileLimit + Window))

InitLengths == Started({"Fix", "Validate"}, {<<>>}, FolderSizes, {<<>>}, {NoArtifacts})

LenDiscover ==
    /\ pc = "start"
    /\ paths_count' = IF driver = "Fix" THEN CutLen(found_count) ELSE found_count
    /\ pc' = IF paths_count' = 0 THEN "exited" ELSE "found"
    /\ UNCHANGED <<reportVars, listVars, driver, exc, found_count, batch_count>>

LenDispatch(from, to) ==
    /\ pc = from
    /\ batch_count' = paths_count
    /\ pc' = to
    /\ UNCHANGED <<reportVars, listVars, driver, exc, found_count, paths_count>>

LenDispatchProbe == LenDispatch("found", "probing")
LenDispatchFix == driver = "Fix" /\ LenDispatch("probed", "remediating")
LenDispatchValidate ==
    \/ driver = "Fix" /\ LenDispatch("remediated", "validating")
    \/ driver = "Validate" /\ LenDispatch("probed", "validating")

\* The pool call returns and the driver's code up to the next pool call
\* runs through (e is ""), or the driver ends with exception e.
LenJoin(from, to, e) ==
    /\ pc = from
    /\ pc' = IF e = "" THEN to ELSE "crashed"
    /\ exc' = e
    /\ UNCHANGED <<reportVars, listVars, driver, countVars>>

LenJoinProbe(e) == LenJoin("probing", "probed", e)
LenJoinFix(e) == LenJoin("remediating", "remediated", e)
LenJoinValidate(e) == LenJoin("validating", "validated", e)
LenAggregate(e) == LenJoin("validated", "done", e)

NextLengths ==
    \/ LenDiscover
    \/ LenDispatchProbe
    \/ LenDispatchFix
    \/ LenDispatchValidate
    \/ \E e \in {"", "AttributeError", "KeyError"} : LenJoinProbe(e)
    \/ \E e \in {"", "AttributeError"} : LenJoinFix(e)
    \/ \E e \in {"", "TypeError", "ParseError"} : LenJoinValidate(e)
    \/ \E e \in {"", "KeyError"} : LenAggregate(e)

SpecLengths == InitLengths /\ [][NextLengths]_vars

\* ========================================================================
\* Report run (Report.py: the __main__ block with a folder argument, and
\* the function main() with --xml-dir, --output-dir and --threads)
\* ========================================================================
\* What the XML directory may hold: up to MaxReports *.xml files.
ReportDirs == UNION {[1..n -> Documents] : n \in 0..MaxReports}

\* What else may be true of the XML directory: it does not exist
\* ("missing"); its files are named r1.xml, r2.xml, ... ("files"); it
\* holds no file and a sub-directory whose name ends in .xml, which
\* glob("*.xml") yields and load_xml_reports skips ("subdir"); its files
\* are named R1.XML, R2.XML, ... ("upper"); or they are and it holds such
\* a sub-directory as well ("upper_subdir").  A sub-directory next to
\* files named r1.xml, ... changes no test the code makes.
DirStates(dir) ==
    IF dir = <<>> THEN {"missing", "files", "subdir"}
    ELSE {"files", "upper", "upper_subdir"}

\* The paths of the files load_xml_reports takes, sorted.
FileNames(state) ==
    IF state \in {"upper", "upper_subdir"} THEN UpperXmlFileNames ELSE XmlFileNames

\* any(xml_dir.glob("*.xml")): the pattern matches lower-case extensions
\* only, and matches directories as well as files.
Globbed(dir, state) ==
    \/ state \in {"subdir", "upper_subdir"}
    \/ dir # <<>> /\ state = "files"

\* Values of --threads; the __main__ block always asks for max_threads.
ThreadArgs == {0, 2, max_threads}

InitReport ==
    /\ folder = <<>>
    /\ found_count = 0
    /\ xml_dir \in ReportDirs
    /\ driver \in {"Report", "main"}
    \* The folder argument of the __main__ block may be the empty string
    \* ("unnamed"): no directory is named.
    /\ xml_dir_state \in DirStates(xml_dir)
           \cup (IF driver = "Report" /\ xml_dir = <<>> THEN {"unnamed"} ELSE {})
    /\ threads \in (IF driver = "main" THEN ThreadArgs ELSE {max_threads})
    /\ summary = <<>>
    /\ out_dir = NoArtifacts
    /\ paths_count = 0
    /\ batch_count = 0
    /\ pc = "start"
    /\ file_paths = <<>>
    /\ batch = <<>>
    /\ task = <<>>
    /\ behaviour = <<>>
    /\ returns = <<>>
    /\ completed = <<>>
    /\ results = <<>>
    /\ total_pages = 0
    /\ tally = NoTally
    /\ disk = {}
    /\ artifacts = {}
    /\ printed = <<>>
    /\ exc = ""

pipelineVars ==
    <<folder, driver, file_paths, behaviour, results, total_pages, tally, disk,
      artifacts, printed, countVars>>

\* The run is a report run: the __main__ block of Report.py or main().
ReportRun == driver \in {"Report", "main"}

\* raise SystemExit(message)
Refuse ==
    /\ pc' = "exited"
    /\ exc' = "SystemExit"
    /\ UNCHANGED <<batch, task, returns, completed>>

\* load_xml_reports up to the submission of one future per *.xml file of
\* the directory, in sorted file order.
SubmitFiles ==
    /\ pc' = "loading"
    /\ batch' = [i \in 1..Len(xml_dir) |-> FileNames(xml_dir_state)[i]]
    /\ task' = [i \in 1..Len(xml_dir) |-> "pending"]
    /\ returns' = [i \in 1..Len(xml_dir) |-> Returned(PyNone)]
    /\ completed' = <<>>
    /\ exc' = ""

\* The __main__ block: if args.folder (with an empty folder argument
\* nothing is done and the process ends with status 0), xml_dir.exists()
\* and any(xml_dir.glob("*.xml")), then
\* load_xml_reports(xml_dir, max_threads=max(1, 4)).
Submit ==
    /\ driver = "Report"
    /\ pc = "start"
    /\ IF xml_dir_state = "unnamed"
       THEN /\ pc' = "exited"
            /\ exc' = ""
            /\ UNCHANGED <<batch, task, returns, completed>>
       ELSE IF xml_dir_state = "missing" \/ ~Globbed(xml_dir, xml_dir_state)
       THEN Refuse
       ELSE SubmitFiles
    /\ UNCHANGED <<pipelineVars, reportVars>>

\* main(): os.path.isdir(xml_dir), then
\* load_xml_reports(xml_dir, max_threads=max(1, args.threads)).
MainSubmit ==
    /\ driver = "main"
    /\ pc = "start"
    /\ IF xml_dir_state = "missing" THEN Refuse ELSE SubmitFiles
    /\ UNCHANGED <<pipelineVars, reportVars>>

\* ThreadPoolExecutor(max_workers=max(1, threads))
max_workers == IF threads > 1 THEN threads ELSE 1

\* The files a thread of the executor is working on: the call runs
\* ("running") or has ended and its future is not yet done ("returning").
Busy == {j \in 1..Len(task) : task[j] \in {"running", "returning"}}

\* A thread of the executor takes the next queued file.
ParseStart(i) ==
    /\ pc = "loading"
    /\ task[i] = "pending"
    /\ {j \in 1..(i - 1) : task[j] = "pending"} = {}
    /\ Cardinality(Busy) < max_workers
    /\ task' = [task EXCEPT ![i] = "running"]
    /\ UNCHANGED <<pipelineVars, reportVars, pc, batch, returns, completed, exc>>

\* collect_verapdf_issues_from_report on that thread: parse, build the
\* issue list, and store it under the lock; or raise.
ParseStore(i) ==
    /\ pc = "loading"
    /\ task[i] = "running"
    /\ LET r == Collect(batch[i], xml_dir[i])
       IN  /\ returns' = [returns EXCEPT ![i] = IF r.raised THEN r ELSE Returned(PyNone)]
           /\ summary' = IF r.raised THEN summary
                         ELSE DictSet(summary, r.value.pdf_path, r.value.issues)
    /\ task' = [task EXCEPT ![i] = "returning"]
    /\ UNCHANGED <<pipelineVars, inputVars, out_dir, pc, batch, completed, exc>>

\* The future of the call is set done, after the call has ended: calls
\* that stored in one order may complete in another.
ParseFinish(i) ==
    /\ pc = "loading"
    /\ task[i] = "returning"
    /\ task' = [task EXCEPT ![i] = "done"]
    /\ completed' = Append(completed, i)
    /\ UNCHANGED <<pipelineVars, reportVars, pc, batch, returns, exc>>

\* A loader that skips the documents it cannot parse.
LoadJoinLenient ==
    /\ pc = "loading"
    /\ {i \in 1..Len(task) : task[i] # "done"} = {}
    /\ pc' = "loaded"
    /\ exc' = ""
    /\ UNCHANGED <<pipelineVars, reportVars, batch, task, returns, completed>>

\* The as_completed loop and the end of the with block: a future found
\* failed raises RuntimeError once the executor has shut down.  exc holds
\* the file path the message of the RuntimeError names.
LoadJoin ==
    /\ pc = "loading"
    /\ {i \in 1..Len(task) : task[i] # "done"} = {}
    /\ IF \E i \in 1..Len(returns) : returns[i].raised
       THEN /\ pc' = "crashed"
            /\ \E i \in 1..Len(returns) : returns[i].raised /\ exc' = batch[i]
       ELSE pc' = "loaded" /\ exc' = ""
    /\ UNCHANGED <<pipelineVars, reportVars, batch, task, returns, completed>>

WriteArtifact(from, to, name, artifacts_after) ==
    /\ pc = from
    /\ pc' = to
    /\ out_dir' = [artifacts_after EXCEPT !.written = @ \cup {name}]
    /\ UNCHANGED <<pipelineVars, inputVars, summary, batch, task, returns, completed, exc>>

WriteFileSummary ==
    WriteArtifact("loaded", "file_csv", "verapdf-file-summary.csv",
                  [out_dir EXCEPT !.file_csv = FileSummaryCsv(summary),
                                  !.text.file_csv = FileSummaryLines(summary)])

WriteClauseSummary ==
    WriteArtifact("file_csv", "clause_csv", "verapdf-clause-summary.csv",
                  [out_dir EXCEPT !.clause_csv = ClauseSummaryRows(summary),
                                  !.text.clause_csv = ClauseSummaryLines(summary)])

WriteCompliance ==
    WriteArtifact("clause_csv", "compliance_txt", "verapdf-compliance-report.txt",
                  [out_dir EXCEPT !.compliance_txt = ComplianceReport(summary),
                                  !.text.compliance_txt = ComplianceLines(summary)])

WriteOutputTxt ==
    WriteArtifact("compliance_txt", "out_txt", "output.txt",
                  [out_dir EXCEPT !.out_txt = SyntheticOutputTxt(Len(summary)),
                                  !.text.out_txt = OutputTxtLines(Len(summary))])

\* html_path = build_report(out_dir, ...): the page is written unless
\* building it raised.
BuildReport ==
    /\ pc = "out_txt"
    /\ LET html == build_report(out_dir)
       IN  /\ out_dir' = [out_dir EXCEPT
                            !.html = html,
                            !.written = IF html.raised THEN @ ELSE @ \cup {"report.html"}]
           /\ pc' = IF html.raised THEN "crashed" ELSE "done"
           /\ exc' = html.exc
    /\ UNCHANGED <<pipelineVars, inputVars, summary, batch, task, returns, completed>>

NextReport ==
    \/ Submit
    \/ MainSubmit
    \/ \E i \in 1..Len(task) : ParseStart(i)
    \/ \E i \in 1..Len(task) : ParseStore(i)
    \/ \E i \in 1..Len(task) : ParseFinish(i)
    \/ LoadJoin
    \/ WriteFileSummary
    \/ WriteClauseSummary
    \/ WriteCompliance
    \/ WriteOutputTxt
    \/ BuildReport

SpecReport == InitReport /\ [][NextReport]_vars

\* ========================================================================
\* Rebuilding the page from the files of a summary folder (build_report)
\* ========================================================================
\* Texts a count line of a compliance report may carry.
CountTexts == {"0", "1", "2", "x", "-1"}

ComplianceTexts ==
    {<<>>}
    \cup {<<<<"Compliant File Count:", " ", c>>,
            <<"Non-Compliant File Count:", " ", n>>,
            <<>>,
            <<"Compliant Files", ":">>, <<"a.pdf">>,
            <<>>,
            <<"Non-Compliant Files", ":">>, <<"b.pdf">>>> : c, n \in CountTexts}

ClauseSummaryTexts ==
    {<<>>,
     <<<<"Clause", "Count", "Description">>>>,
     <<<<"Clause", "Count", "Description">>, <<"7.1", "2", "Tagged">>,
       <<"10.1", "x", "">>>>,
     <<<<"Clause", "Count", "Description">>, <<"7.1", "2">>>>,
     <<<<"Clause", "Count">>, <<"7.1", "2">>>>}

FileSummaryTexts ==
    {<<>>,
     <<<<"file", "7.1">>, <<"a.pdf", "O">>, <<"b.pdf", "">>>>,
     <<<<"name", "7.1">>, <<"a.pdf", "O">>>>}

OutputTexts ==
    {<<>>,
     OutputTxtLines(2),
     <<<<"Found ", "3", " file(s).">>,
       <<"Namespace(", "operation=", "validation-report", ")">>,
       <<"Namespace(", "operation='", "validation-report", "')">>,
       <<"[TIME] processed in ", "1.2.3", " seconds">>>>}

ArtifactNames ==
    {"output.txt", "verapdf-compliance-report.txt", "verapdf-clause-summary.csv",
     "verapdf-file-summary.csv"}

\* A folder left by an earlier run: any of the four files may be missing
\* and any may be malformed.
PriorFolders ==
    {[NoArtifacts EXCEPT
        !.written = present,
        !.text = [file_csv |-> IF "verapdf-file-summary.csv" \in present THEN f ELSE <<>>,
                  clause_csv |-> IF "verapdf-clause-summary.csv" \in present THEN c ELSE <<>>,
                  compliance_txt |-> IF "verapdf-compliance-report.txt" \in present
                                     THEN t ELSE <<>>,
                  out_txt |-> IF "output.txt" \in present THEN o ELSE <<>>]] :
        present \in SUBSET ArtifactNames, f \in FileSummaryTexts,
        c \in ClauseSummaryTexts, t \in ComplianceTexts, o \in OutputTexts}

InitRebuild == Started({"build_report"}, {<<>>}, {0}, {<<>>}, PriorFolders)

Rebuild ==
    /\ driver = "build_report"
    /\ pc = "start"
    /\ LET html == build_report(out_dir)
       IN  /\ out_dir' = [out_dir EXCEPT
                            !.html = html,
                            !.written = IF html.raised THEN @ ELSE @ \cup {"report.html"}]
           /\ pc' = IF html.raised THEN "crashed" ELSE "done"
           /\ exc' = html.exc
    /\ UNCHANGED <<pipelineVars, inputVars, summary, batch, task, returns, completed>>

NextRebuild == Rebuild

SpecRebuild == InitRebuild /\ [][NextRebuild]_vars

\* ------------------------------------------------------------------------
\* build_report on a folder that holds only a run log (output.txt)
\* ------------------------------------------------------------------------
\* Lines of a run log: markers of two operations, a marker the pattern
\* operation='...' does not match, Found and [TIME] lines whose number
\* parses and whose number does not, and a time stamp.
LogLines ==
    {<<"Namespace(", "operation='", "fix", "')">>,
     <<"Namespace(", "operation='", "report-summary", "')">>,
     <<"Namespace(", "operation=", "fix", ")">>,
     <<"Found ", "2", " file(s).">>,
     <<"Found ", "3", " file(s).">>,
     <<"Found ", "x", " file(s).">>,
     <<"[TIME] processed in ", "0.01", " seconds">>,
     <<"[TIME] processed in ", "2.5", " seconds">>,
     <<"[TIME] processed in ", "1.2.3", " seconds">>,
     <<"2026-01-01-000000">>}

\* The logs of up to MaxLogLines lines, and the logs
\* write_synthetic_before_output_txt writes.
LogTexts ==
    UNION {[1..n -> LogLines] : n \in 0..MaxLogLines}
    \cup {OutputTxtLines(n) : n \in 0..MaxReports}

LogFolders ==
    {[NoArtifacts EXCEPT !.written = {"output.txt"}, !.text.out_txt = o] : o \in LogTexts}

InitLog == Started({"build_report"}, {<<>>}, {0}, {<<>>}, LogFolders)

SpecLog == InitLog /\ [][NextRebuild]_vars

\* ========================================================================
\* Claims
\* ========================================================================
JobDone(stagePc, i) == pc = stagePc /\ i \in 1..Len(batch) /\ task[i] = "done"

\* C1 -- Order preservation: the list a pool call hands back has one result
\* per job of the batch and its i-th result is the result of the i-th job,
\* whatever order the workers finished in; in the Fix driver the i-th
\* validation job validates the output path of the i-th remediation job.
C1_OrderPreservation ==
    /\ pc \in {"probed", "remediated", "validated"} => Len(results) = Len(batch)
    /\ pc = "probed" =>
          \A i \in 1..Len(batch) :
              results[i] = GetPageCount(batch[i], behaviour[i]).value
    /\ pc = "remediated" =>
          \A i \in 1..Len(batch) :
              results[i] = Fix(batch[i].input, batch[i].output, batch[i].report,
                               behaviour[i]).ret.value
    /\ pc = "validated" =>
          \A i \in 1..Len(batch) :
              results[i] = validatePdf(batch[i].input, batch[i].output,
                                       batch[i].report, behaviour[i]).ret.value
    /\ (driver = "Fix" /\ pc \in {"validating", "validated"}) =>
          /\ Len(batch) = Len(file_paths)
          /\ \A i \in 1..Len(batch) : batch[i].input = file_paths[i].output

\* Two validation jobs of the Fix driver finished in reverse order with
\* different results, and the pool handed the results back.
C1_Witness ==
    /\ driver = "Fix"
    /\ pc = "validated"
    /\ Len(batch) = 2
    /\ completed = <<2, 1>>
    /\ results[1].result # results[2].result

\* C2 -- Partition completeness: the jobs dispatched in one run are exactly
\* the discovered files, each exactly once.  (Every list of the driver is a
\* prefix of the discovered list, so a batch holds each discovered file
\* exactly once iff it is as long as the discovered list.)
C2_AllDiscoveredDispatched ==
    pc \in {"probing", "remediating", "validating"} => batch_count = found_count

\* C3 -- Partition size bound: every batch of jobs handed to one pool call
\* has at most chunk_size jobs.
C3_BatchWithinChunkSize ==
    pc \in {"probing", "remediating", "validating"} => batch_count <= chunk_size

\* C4 -- Remediation failure containment: when the engine cannot open, run
\* or save a file, the failure is printed and no exception leaves the
\* worker.
CannotOpenRunOrSave(b) == ~b.doc \/ ~b.run \/ ~b.save

C4_RemediationFailureContained ==
    \A i \in 1..Len(batch) :
        (JobDone("remediating", i) /\ CannotOpenRunOrSave(behaviour[i]))
            => (~returns[i].raised /\ printed[i] >= 1)

\* C5 -- A validator launch failure and a validator crash (exit code > 1)
\* both give that file a row with result Error and no rules, and no
\* exception leaves the worker.
LaunchFailedOrCrashed(t) == t.launch # "ran" \/ t.returncode > 1

C5_LaunchFailureOrCrashIsError ==
    \A i \in 1..Len(batch) :
        (JobDone("validating", i) /\ LaunchFailedOrCrashed(behaviour[i]))
            => /\ ~returns[i].raised
               /\ returns[i].value.result = "Error"
               /\ returns[i].value.rules = <<>>

\* C6 -- validatePdf classifies the validator's exit code totally and
\* exclusively: whenever the validator process ended, the job returns a
\* row; exit code 0 gives True with no rules, 1 gives False with the rules
\* parsed from the tool's output, every other code gives Error with no
\* rules; rules are non-empty only for False.
C6_ExitCodeClassification ==
    \A i \in 1..Len(batch) :
        (JobDone("validating", i) /\ behaviour[i].launch = "ran") =>
            LET code == behaviour[i].returncode
                row == returns[i].value
            IN  /\ ~returns[i].raised
                /\ row.result \in {"True", "False", "Error"}
                /\ code = 0 => (row.result = "True" /\ row.rules = <<>>)
                /\ code = 1 =>
                       (row.result = "False"
                        /\ row.rules = parseValidationReport(behaviour[i].stdout).value)
                /\ code \notin {0, 1} => (row.result = "Error" /\ row.rules = <<>>)
                /\ row.rules # <<>> => row.result = "False"

\* C7 -- A validation job writes the report document exactly when the tool
\* ended with status 0 or 1; a job whose result is Error writes none.
WroteReport(i) == \E e \in disk : e.stage = "validate" /\ e.job = i

C7_ReportIffCompliantOrNot ==
    \A i \in 1..Len(batch) :
        JobDone("validating", i) =>
            /\ WroteReport(i) <=> (behaviour[i].launch = "ran"
                                   /\ behaviour[i].returncode \in {0, 1})
            /\ (~returns[i].raised /\ returns[i].value.result = "Error")
                   => ~WroteReport(i)

\* C8 -- No file path is written by two jobs: two different jobs of a stage
\* never write the same file.
C8_NoPathWrittenTwice ==
    \A e1, e2 \in disk :
        (e1.file = e2.file /\ e1.stage = e2.stage) => e1.job = e2.job

\* The failed violations a document holds for one file: its unskipped
\* <rule> elements, or its unskipped <check> elements when it has none.
RawViolations(doc) ==
    LET rules == SelectSeq(RuleEntries(doc), LAMBDA el : ~el.skipped)
        checks == SelectSeq(CheckEntries(doc), LAMBDA el : ~el.skipped)
    IN  IF rules # <<>> THEN rules ELSE checks

\* The key under which a parsed document is stored.
SummaryKey(i) == IF xml_dir[i].name # "" THEN Strip(xml_dir[i].name) ELSE FileNames(xml_dir_state)[i]

\* C9 -- Clause deduplication: the violation list stored for a file is the
\* aggregation of a document of that file whose call has stored: it holds
\* the clauses of the raw violations of the document, each clause at most
\* once, and its description of a clause is non-empty whenever a raw
\* violation of that clause in the document has a non-empty description.
Stored(i) == task[i] \in {"returning", "done"} /\ ~returns[i].raised

C9_ClauseDeduplication ==
    \A k \in 1..Len(summary) :
        \E i \in 1..Len(xml_dir) :
            /\ Stored(i)
            /\ SummaryKey(i) = summary[k].key
            /\ LET issues == summary[k].value
                   raw == RawViolations(xml_dir[i])
               IN  /\ {issues[a].clause : a \in 1..Len(issues)}
                          = {raw[r].clause : r \in 1..Len(raw)}
                   /\ \A a, b \in 1..Len(issues) :
                          issues[a].clause = issues[b].clause => a = b
                   /\ \A r \in 1..Len(raw) :
                          raw[r].description # "" =>
                              \E a \in 1..Len(issues) :
                                  /\ issues[a].clause = raw[r].clause
                                  /\ issues[a].description # ""

\* C10 -- Clause-summary CSV: one row per distinct clause of the violation
\* lists of the summary, rows ascending by clause (the order of Python
\* strings), and the Count of a row is the number of files of the summary
\* whose violation list contains the clause.
ClausesOfFile(k) == {summary[k].value[j].clause : j \in 1..Len(summary[k].value)}

C10_ClauseSummaryCsv ==
    "verapdf-clause-summary.csv" \in out_dir.written =>
        LET rows == out_dir.clause_csv
            clauses == UNION {ClausesOfFile(k) : k \in 1..Len(summary)}
        IN  /\ {rows[r].clause : r \in 1..Len(rows)} = clauses
            /\ Len(rows) = Cardinality(clauses)
            /\ \A r \in 1..(Len(rows) - 1) : StrLess(rows[r].clause, rows[r + 1].clause)
            /\ \A r \in 1..Len(rows) :
                   rows[r].count =
                       Cardinality({k \in 1..Len(summary) : rows[r].clause \in ClausesOfFile(k)})

\* Two files share clause 7.1 and one of them also has 10.1: the CSV has
\* the row of 10.1 before the row of 7.1, which counts both files.
C10_Witness ==
    /\ "verapdf-clause-summary.csv" \in out_dir.written
    /\ Len(summary) = 2
    /\ Len(out_dir.clause_csv) = 2
    /\ out_dir.clause_csv[1].clause = "10.1" /\ out_dir.clause_csv[1].count = 1
    /\ out_dir.clause_csv[2].clause = "7.1" /\ out_dir.clause_csv[2].count = 2

\* The summary a run builds when the documents are stored in file order.
RECURSIVE SummaryInFileOrder(_, _)
SummaryInFileOrder(i, acc) ==
    IF i > Len(xml_dir) THEN acc
    ELSE LET r == Collect(FileNames(xml_dir_state)[i], xml_dir[i])
         IN  SummaryInFileOrder(i + 1,
                 IF r.raised THEN acc
                 ELSE DictSet(acc, r.value.pdf_path, r.value.issues))

\* C11 -- Aggregation idempotence: whatever the interleaving of the parser
\* threads, a report run over a set of documents writes the compliance
\* TXT, the clause-summary CSV and the file-summary CSV that the run storing
\* the documents in file order writes, so any two runs write the same.
C11_AggregationIdempotence ==
    pc = "out_txt" =>
        LET reference == SummaryInFileOrder(1, <<>>)
        IN  /\ out_dir.compliance_txt = ComplianceReport(reference)
            /\ out_dir.clause_csv = ClauseSummaryRows(reference)
            /\ out_dir.file_csv = FileSummaryCsv(reference)

\* C12 -- Zero-file guard: building the page never divides by zero; a page
\* built from counts that are both 0 shows N/A as the total and 0.0% for
\* both ratios; a page built from a positive total shows compliant +
\* non-compliant as the total, and its two ratios sum to 1.
C12_ZeroFileGuard ==
    pc \in {"done", "crashed"} =>
        /\ out_dir.html.exc # "ZeroDivisionError"
        /\ (~out_dir.html.raised /\ "report.html" \in out_dir.written) =>
               LET page == out_dir.html.value
                   total == page.compliant_count + page.non_compliant_count
               IN  /\ (page.compliant_count = 0 /\ page.non_compliant_count = 0) =>
                          /\ page.total_files_text = "N/A"
                          /\ page.compliant_percent = 0
                          /\ page.non_compliant_percent = 0
                   /\ total > 0 =>
                          /\ page.total_files_text = Str(total)
                          /\ page.compliant_ratio.den = total
                          /\ page.non_compliant_ratio.den = total
                          /\ page.compliant_ratio.num + page.non_compliant_ratio.num = total

\* A page was built from a compliance report whose two counts are 0.
C12_Witness ==
    /\ pc = "done"
    /\ "report.html" \in out_dir.written
    /\ "verapdf-compliance-report.txt" \in out_dir.written
    /\ Len(out_dir.text.compliance_txt) >= 2
    /\ out_dir.text.compliance_txt[1] = <<"Compliant File Count:", " ", "0">>
    /\ out_dir.text.compliance_txt[2] = <<"Non-Compliant File Count:", " ", "0">>
    /\ out_dir.html.value.compliant_count = 0
    /\ out_dir.html.value.non_compliant_count = 0
    /\ out_dir.html.value.total_files_text = "N/A"

\* C13 -- Stage sequencing: a job is started only while its stage is the
\* current one; the driver leaves a stage only when every chunk of the
\* stage has ended, and goes on to the next stage only when every job of
\* the stage has finished; remediation is entered from the finished probe
\* stage and validation from the finished remediation stage (Fix.py) or
\* probe stage (Validate.py); the aggregation counters change only after
\* the validation stage has been left.
StagePcs == {"probing", "remediating", "validating"}

C13_StageSequencing ==
    [][/\ (pc' # pc /\ pc \in StagePcs)
              => \A i \in DOMAIN task : task[i] \in {"done", "skipped"}
       /\ (pc' # pc /\ pc \in StagePcs /\ pc' # "crashed")
              => \A i \in DOMAIN task : task[i] = "done"
       /\ (\E i \in DOMAIN task \cap DOMAIN task' :
               task[i] = "pending" /\ task'[i] = "running")
              => (pc \in StagePcs /\ pc' = pc)
       /\ (pc' = "remediating" /\ pc # "remediating") => pc = "probed"
       /\ (pc' = "validating" /\ pc # "validating")
              => pc = (IF driver = "Fix" THEN "remediated" ELSE "probed")
       /\ tally' # tally => (pc = "validated" /\ pc' \in {"done", "crashed"})]_vars

\* A run of Fix.py over more files than the pool has processes went
\* through the three stages and counted every validation result.
C13_Witness ==
    /\ driver = "Fix"
    /\ pc = "done"
    /\ Len(batch) > process_count
    /\ Len(completed) = Len(batch)
    /\ tally.passed + tally.failed + tally.error = Len(batch)

\* C14 -- Bounded concurrency: at every moment of every stage at most
\* process_count (4) jobs are in progress, however many files there are and
\* however the pool cuts them into chunks; no two jobs of one chunk are in
\* progress together (a worker has one file at a time); and the
\* aggregation counters are changed only when no job is in progress and
\* the driver has left the last pool.
C14_BoundedConcurrency ==
    /\ Cardinality(Running) <= process_count
    /\ \A i, j \in Running : ChunkHead(i) = ChunkHead(j) => i = j
    /\ tally # NoTally => (Running = {} /\ pc \in {"done", "crashed"})

\* More than sixteen files, two to a chunk: four jobs are in progress, one
\* of them the second of its chunk, and a chunk waits.
C14_Witness ==
    /\ Len(batch) > 4 * process_count
    /\ Cardinality(Running) = process_count
    /\ \E i \in Running : ChunkHead(i) # i
    /\ \E i \in 1..Len(batch) : ChunkHead(i) = i /\ task[i] = "pending"

\* C15 -- Per-job timeout: a validation batch always comes to an end, with
\* a result for every job or an error, even if the validator of one job
\* never returns.
C15_BatchCompletes ==
    (pc = "validating") ~> (pc \in {"validated", "crashed", "done"})

\* C16 -- Probe tolerance: a probe of a file that cannot be opened returns
\* the page count -1, and a probing pass in which the probe of some file
\* failed or crashed still ends with the driver going on to the next stage.
InProbeStage == batch # <<>> /\ batch = InputFiles(file_paths)

ProbeFailed(i) == task[i] = "done" /\ (returns[i].raised \/ ~behaviour[i].doc)

C16_ProbeTolerance ==
    InProbeStage =>
        /\ \A i \in 1..Len(batch) :
               (task[i] = "done" /\ behaviour[i].pdfix /\ ~behaviour[i].doc) =>
                   (~returns[i].raised /\ returns[i].value.pages = -1)
        /\ (\E i \in 1..Len(batch) : ProbeFailed(i)) => pc # "crashed"

\* C17 -- Scenario D: in a run of Fix.py, the remediation job of a file
\* whose probe reported -1 pages, and which the remediation cannot open
\* either, does not raise, so that the file goes on to validation and is
\* counted.
ProbeReportedFailure(i) ==
    /\ driver = "Fix"
    /\ batch = file_paths
    /\ pc \in {"remediating", "crashed"}
    /\ Len(results) = Len(batch)
    /\ results[i].py = "list"
    /\ results[i].pages = -1

C17_FailedProbeStillProcessed ==
    \A i \in 1..Len(batch) :
        (/\ ProbeReportedFailure(i)
         /\ task[i] = "done"
         /\ behaviour[i].pdfix /\ ~behaviour[i].doc) => ~returns[i].raised

\* C18 -- A malformed XML document is fatal for the report run: once the
\* loader has run and ended, the run has ended with the error that names
\* the path of a malformed document, and no report artifact has been
\* written.  (A run refused at its guard never starts the loader.)
Malformed == {i \in 1..Len(xml_dir) : ~xml_dir[i].wellformed}

C18_MalformedXmlIsFatal ==
    (ReportRun /\ Malformed # {} /\ pc \notin {"start", "loading", "exited"}) =>
        /\ pc = "crashed"
        /\ exc \in {FileNames(xml_dir_state)[i] : i \in Malformed}
        /\ out_dir.written = {}
        /\ out_dir.text = NoArtifacts.text

\* One of two documents was malformed, the other was parsed and stored,
\* and the run ended with the error naming the malformed one.
C18_Witness ==
    /\ ReportRun
    /\ pc = "crashed"
    /\ Len(xml_dir) = 2
    /\ Cardinality(Malformed) = 1
    /\ Len(summary) = 1
    /\ exc \in {FileNames(xml_dir_state)[i] : i \in Malformed}

\* C19 -- The standalone rebuild tolerates bad prior artifacts: whatever the
\* four prior artifacts of the folder hold (missing, unparseable counts,
\* missing columns, short rows), build_report ends without raising and the
\* HTML dashboard has been written.
C19_RebuildTolerant ==
    (driver = "build_report" /\ pc # "start") =>
        /\ pc = "done"
        /\ ~out_dir.html.raised
        /\ "report.html" \in out_dir.written

\* The compliance text report as it stands in the summary folder: the two
\* count lines and the names listed under the two headers.
ReportText == out_dir.text.compliance_txt
CompliantHeader == CHOOSE k \in 1..Len(ReportText) : ReportText[k] = <<"Compliant Files", ":">>
NonCompliantHeader ==
    CHOOSE k \in 1..Len(ReportText) : ReportText[k] = <<"Non-Compliant Files", ":">>
CompliantListed ==
    [k \in 1..(NonCompliantHeader - CompliantHeader - 2) |->
        Joined(ReportText[CompliantHeader + k])]
NonCompliantListed ==
    [k \in 1..(Len(ReportText) - NonCompliantHeader) |->
        Joined(ReportText[NonCompliantHeader + k])]
CompliantKeys ==
    {summary[k].key : k \in {j \in 1..Len(summary) : Len(summary[j].value) = 0}}
NonCompliantKeys ==
    {summary[k].key : k \in {j \in 1..Len(summary) : Len(summary[j].value) # 0}}

\* The list shows each file of the set once, by its basename, the files in
\* ascending order of their paths.
ListsFilesByPath(list, files) ==
    /\ Len(list) = Cardinality(files)
    /\ \E f \in [1..Len(list) -> files] :
          /\ \A j, k \in 1..Len(list) : j < k => StrLess(f[j], f[k])
          /\ \A k \in 1..Len(list) : list[k] = os_path_basename(f[k])

\* The list shows each file of the set once, by its basename.
ListsFiles(list, files) ==
    /\ Len(list) = Cardinality(files)
    /\ \E f \in [1..Len(list) -> files] :
          /\ \A j, k \in 1..Len(list) : j # k => f[j] # f[k]
          /\ \A k \in 1..Len(list) : list[k] = os_path_basename(f[k])

\* The names of the list are in ascending order as they are shown.
ShownAscending(list) ==
    \A j, k \in 1..Len(list) : j < k => ~StrLess(list[k], list[j])

ComplianceWritten ==
    ReportRun /\ "verapdf-compliance-report.txt" \in out_dir.written

CountsMatchLists ==
    /\ ReportText[1] = <<"Compliant File Count:", " ", Str(Len(CompliantListed))>>
    /\ ReportText[2] = <<"Non-Compliant File Count:", " ", Str(Len(NonCompliantListed))>>
    /\ Len(CompliantListed) + Len(NonCompliantListed) = Len(summary)

\* C20 (as stated) -- Compliance text report: every file of the summary is
\* listed in exactly one of the two lists, in the compliant list iff its
\* violation list is empty; the two count lines equal the lengths of the
\* two lists and sum to the number of files of the summary; each list, as
\* it is shown, is sorted.
C20_ComplianceReportAsStated ==
    ComplianceWritten =>
        /\ ListsFiles(CompliantListed, CompliantKeys)
        /\ ListsFiles(NonCompliantListed, NonCompliantKeys)
        /\ CountsMatchLists
        /\ ShownAscending(CompliantListed)
        /\ ShownAscending(NonCompliantListed)

\* C20 (amended) -- Compliance text report: every file of the summary is
\* listed, by its basename, in exactly one of the two lists, in the
\* compliant list iff its violation list is empty; the two count lines
\* equal the lengths of the two lists and sum to the number of files of the
\* summary; each list is in ascending order of the files' paths in the
\* summary, so the basenames shown need not be in ascending order.
C20_ComplianceReport ==
    ComplianceWritten =>
        /\ ListsFilesByPath(CompliantListed, CompliantKeys)
        /\ ListsFilesByPath(NonCompliantListed, NonCompliantKeys)
        /\ CountsMatchLists

\* A report of two non-compliant files that were stored in descending
\* order of their paths and whose basenames are in the opposite order of
\* their paths.
C20_Witness ==
    /\ ComplianceWritten
    /\ Len(summary) = 2
    /\ Len(CompliantListed) = 0
    /\ Len(NonCompliantListed) = 2
    /\ StrLess(summary[2].key, summary[1].key)
    /\ StrLess(NonCompliantListed[2], NonCompliantListed[1])

\* The two CSV files as they stand in the summary folder.
FileCsvText == out_dir.text.file_csv
ClauseCsvText == out_dir.text.clause_csv
ClauseColumns == Tail(FileCsvText[1])
FileRows == Tail(FileCsvText)
BothCsvWritten ==
    /\ ReportRun
    /\ {"verapdf-file-summary.csv", "verapdf-clause-summary.csv"} \subseteq out_dir.written

\* C21 -- File-summary CSV: the clause columns are exactly the clauses seen
\* in any file of the summary, ascending; there is exactly one row per file
\* of the summary, the rows in ascending order of the files' paths; the
\* cell (file, clause) is O iff the file's violation list contains the
\* clause and is empty otherwise; so the number of O cells of a clause's
\* column is the clause's Count in the clause-summary CSV.
C21_FileSummaryCsv ==
    BothCsvWritten =>
        /\ FileCsvText[1][1] = "file"
        /\ Range(ClauseColumns) = UNION {ClausesOfFile(k) : k \in 1..Len(summary)}
        /\ \A c \in 1..(Len(ClauseColumns) - 1) :
               StrLess(ClauseColumns[c], ClauseColumns[c + 1])
        /\ Len(FileRows) = Len(summary)
        /\ \E f \in [1..Len(FileRows) -> 1..Len(summary)] :
              /\ \A j, k \in 1..Len(FileRows) :
                     j < k => StrLess(summary[f[j]].key, summary[f[k]].key)
              /\ \A k \in 1..Len(FileRows) :
                     /\ Len(FileRows[k]) = 1 + Len(ClauseColumns)
                     /\ FileRows[k][1] = os_path_basename(summary[f[k]].key)
                     /\ \A c \in 1..Len(ClauseColumns) :
                            FileRows[k][c + 1] =
                                IF ClauseColumns[c] \in ClausesOfFile(f[k]) THEN "O" ELSE ""
        /\ Len(ClauseCsvText) = 1 + Len(ClauseColumns)
        /\ \A c \in 1..Len(ClauseColumns) :
               /\ ClauseCsvText[c + 1][1] = ClauseColumns[c]
               /\ ClauseCsvText[c + 1][2] =
                      Str(Cardinality({k \in 1..Len(FileRows) : FileRows[k][c + 1] = "O"}))

\* Two files stored in descending order of their paths: both have clause
\* 7.1, one of them also 10.1, so the column of 10.1 holds one O and the
\* column of 7.1 two.
C21_Witness ==
    /\ BothCsvWritten
    /\ Len(summary) = 2
    /\ StrLess(summary[2].key, summary[1].key)
    /\ ClauseColumns = <<"10.1", "7.1">>
    /\ Cardinality({k \in 1..2 : FileRows[k][2] = "O"}) = 1
    /\ Cardinality({k \in 1..2 : FileRows[k][3] = "O"}) = 2

\* The exit status of a run that ended at one of the guards of __main__:
\* exit() without an argument ends the process with status 0, raise
\* SystemExit(message) prints the message and ends it with status 1.
ExitStatus == IF exc = "SystemExit" THEN 1 ELSE 0

NothingFound ==
    \/ driver \in {"Fix", "Validate"} /\ pc # "start" /\ Len(file_paths) = 0
    \/ ReportRun /\ pc # "start" /\ Len(xml_dir) = 0

\* C22 -- Systemic failure: when discovery finds no matching file, or the
\* report step finds no XML document, the run ends with a nonzero exit
\* status before any probe, remediation, validation or artifact writing.
C22_SystemicFailureExit ==
    NothingFound =>
        /\ pc = "exited"
        /\ ExitStatus # 0
        /\ batch = <<>>
        /\ disk = {}
        /\ out_dir.written = {}

\* C23 -- Verdict tallies: when the aggregation loop over the validation
\* results has ended, every result has been counted in exactly one of
\* passed, failed and error, so the three counters sum to the number of
\* validated files; the counters are untouched until then, whatever the
\* remediation jobs did.
Counted(verdict) == Cardinality({i \in 1..Len(results) : results[i].result = verdict})

C23_VerdictTallies ==
    /\ pc = "done" =>
          /\ ~tally.raised
          /\ tally.passed = Counted("True")
          /\ tally.failed = Counted("False")
          /\ tally.error = Counted("Error")
          /\ tally.passed + tally.failed + tally.error = Len(results)
          /\ Len(results) = Len(file_paths)
    /\ pc \in {"start", "found", "probing", "probed", "remediating", "remediated",
                "validating", "validated"} => tally = NoTally

\* The Fix driver ended after remediation and validation of two files: one
\* validated file failed, the other ended in error.
C23_Witness ==
    /\ driver = "Fix"
    /\ pc = "done"
    /\ Len(results) = 2
    /\ tally.passed = 0 /\ tally.failed = 1 /\ tally.error = 1

\* C24 -- After the probe stage total_pages is the sum of the page counts
\* GetPageCount returned over all probed files, and the driver reaches the
\* next stage, for every mix of files that open and files that do not.
ProbesReturned ==
    /\ pc = "probing"
    /\ AllFinished
    /\ \A i \in 1..Len(batch) : ~returns[i].raised

C24_TotalPagesAndNextStage ==
    [][(ProbesReturned /\ pc' # "probing") =>
          /\ pc' = "probed"
          /\ total_pages' =
                 SumRange([i \in 1..Len(batch) |-> returns[i].value.pages], 1, Len(batch))]_vars

\* C25 -- No report is lost while loading: when every document of the
\* directory is well-formed, then whatever the interleaving of the parser
\* threads, the summary load_xml_reports returns has exactly one entry per
\* document, also when two documents name the same PDF.
C25_NoReportLost ==
    (/\ ReportRun
     /\ Malformed = {}
     /\ pc \notin {"start", "loading", "exited"}) =>
        /\ pc # "crashed"
        /\ Len(summary) = Len(xml_dir)

\* The run log of the folder, and the positions of its marker lines (the
\* pattern operation='...' matches), its Found lines and its [TIME] lines.
LogRead == out_dir.text.out_txt
MarkerAt ==
    {k \in 1..Len(LogRead) :
        Contains(LogRead[k], {"Namespace("}) /\ OperationOf(LogRead[k]) # None}
FoundAt == {k \in 1..Len(LogRead) : k \notin MarkerAt /\ FoundOf(LogRead[k]) # None}
TimeAt == {k \in 1..Len(LogRead) : k \notin MarkerAt /\ TimeOf(LogRead[k]) # None}
Latest(S) == CHOOSE x \in S : \A y \in S : y <= x
NthMarker(j) == CHOOSE k \in MarkerAt : Cardinality({m \in MarkerAt : m <= k}) = j
\* The lines of S whose most recent preceding marker is the j-th marker.
LinesOfStep(S, j) ==
    {k \in S : /\ {m \in MarkerAt : m < k} # {}
               /\ Latest({m \in MarkerAt : m < k}) = NthMarker(j)}
LogParsed == driver = "build_report" /\ pc # "start" /\ "output.txt" \in out_dir.written

\* C26 -- Run-log parsing: parse_output_txt returns one step per marker
\* line, in file order; the found_files and the duration of a step are
\* those of the last Found line and of the last [TIME] line between its
\* marker and the next (None when there is no such line, or when the
\* duration is not a number); Found and [TIME] lines before the first
\* marker are ignored; so the log write_synthetic_before_output_txt writes
\* for n files parses to the one step report-summary with found_files n.
C26_RunLogParsing ==
    LogParsed =>
        /\ ~out_dir.html.raised
        /\ LET steps == out_dir.html.value.steps
           IN  /\ Len(steps) = Cardinality(MarkerAt)
               /\ \A j \in 1..Len(steps) :
                      LET found == LinesOfStep(FoundAt, j)
                          time == LinesOfStep(TimeAt, j)
                      IN  /\ steps[j].operation = OperationOf(LogRead[NthMarker(j)])[1]
                          /\ steps[j].found_files =
                                 IF found = {} THEN None
                                 ELSE Some(int(FoundOf(LogRead[Latest(found)])[1]).value)
                          /\ steps[j].duration_sec =
                                 IF time = {} THEN None
                                 ELSE LET d == float(TimeOf(LogRead[Latest(time)])[1])
                                      IN  IF d.raised THEN None ELSE Some(d.value)
               /\ \A n \in 0..MaxReports :
                      LogRead = OutputTxtLines(n) =>
                          /\ Len(steps) = 1
                          /\ steps[1].operation = "report-summary"
                          /\ steps[1].found_files = Some(n)

\* A log of two steps: the Found line before the first marker is ignored,
\* the first step has no count, the second step has none either.
C26_Witness ==
    /\ LogParsed
    /\ ~out_dir.html.raised
    /\ Len(LogRead) = 3
    /\ FoundAt = {1}
    /\ MarkerAt = {2, 3}
    /\ Len(out_dir.html.value.steps) = 2
    /\ out_dir.html.value.steps[1].found_files = None
    /\ out_dir.html.value.steps[1].operation # out_dir.html.value.steps[2].operation

\* A log in which a later Found line overwrites an earlier one.
C26_WitnessOverwrite ==
    /\ LogParsed
    /\ ~out_dir.html.raised
    /\ MarkerAt = {1}
    /\ FoundAt = {2, 3}
    /\ LogRead[2] # LogRead[3]
    /\ out_dir.html.value.steps[1].found_files = Some(int(LogRead[3][2]).value)

\* C27 -- Compliance report round trip: parse_compliance_txt applied to the
\* file write_compliance_report wrote returns the compliant count, the
\* non-compliant count and the two lists of basenames that were written,
\* whatever the file names are.
C27_ComplianceRoundTrip ==
    ComplianceWritten =>
        LET written == out_dir.compliance_txt
            read == parse_compliance_txt(TRUE, out_dir.text.compliance_txt)
        IN  /\ read.compliant_count = written.compliant_count
            /\ read.non_compliant_count = written.non_compliant_count
            /\ read.compliant_files =
                   [k \in 1..Len(written.compliant) |-> Tokens(written.compliant[k])]
            /\ read.non_compliant_files =
                   [k \in 1..Len(written.non_compliant) |-> Tokens(written.non_compliant[k])]

====
